---------------------------- MODULE Spec2Model ----------------------------
(***************************************************************************)
(* A model of the doke-gdext parsing core:                                 *)
(*   - ParserRegistry (src/src/parser_api.rs)                              *)
(*   - parse_frontmatter, parse_yaml_to_value, the wiki links, the body    *)
(*     and DokeMarkdownParser::parse (src/src/parsers/doke_parser.rs)      *)
(*   - ParserContext and DefaultMarkdownParser (src/src/parser_api.rs)     *)
(*   - DokeError (src/src/error.rs)                                        *)
(*   - build_top_level_resource (src/src/import.rs)                        *)
(*   - DokeImporter (src/src/lib.rs)                                       *)
(* Strings that the code inspects character by character are modelled as   *)
(* sequences of one-character strings; strings that are only compared or   *)
(* concatenated (metadata keys and paths) are TLA+ strings.                *)
(***************************************************************************)
EXTENDS Integers, Sequences, FiniteSets, TLC

VARIABLES
    supported,    \* registry: parser id -> what its supported_types() returns
    parsers,      \* registry: ParserRegistry.parsers, lowercased name -> parser id
    order,        \* registry history: registered parser ids, most recent last
    content,      \* frontmatter: the document given to parse_frontmatter
    yaml_content, \* frontmatter: capture group 1 of the pattern
    body_content, \* frontmatter: capture group 2 of the pattern
    docs,         \* frontmatter: what YamlLoader::load_from_str answered
    fmPc,         \* frontmatter: "start" before the call, "done" after
    fmResult,     \* frontmatter: what parse_frontmatter returned
    yamlDoc,      \* flattening: the Yaml value given to parse_yaml_to_value
    flPc,         \* flattening: "start" before the call, "done" after
    flResult,     \* flattening: the map it filled, or the panic it ended in
    wiki_text,    \* wiki links: the text given to extract_wiki_links_from_text
    links,        \* wiki links: the links it returned
    wlPc,         \* wiki links: "start" before the call, "done" after
    ast,          \* markdown: what markdown::to_mdast answered for the body
    nodes,        \* markdown: what parse_markdown_body returned
    mdPc,         \* markdown: "start" before the call, "done" after
    parsed,       \* parse: what DokeMarkdownParser::parse returned
    parsePc,      \* parse: "start" before the call, "done" after
    ctx,          \* context: the ParserContext a call is made on or with
    child,        \* context: what create_child returned
    ctxPc,        \* context: "start" before the call, "done" after
    err,          \* errors: the DokeError a method is called on
    errCause,     \* errors: the error given to with_source
    errOut,       \* errors: what the method returned
    errPc,        \* errors: "start" before the call, then the method called
    def_content,  \* default parser: the content given to DefaultMarkdownParser::parse
    def_result,   \* default parser: what it returned
    defPc,        \* default parser: "start" before the call, "done" after
    bt_value,     \* top-level build: the GodotValue given to build_top_level_resource
    bt_path,      \* top-level build: the path given to it
    host,         \* top-level build: the calls made into the engine, in order
    bt_result,    \* top-level build: what it returned
    btPc,         \* top-level build: "start" before the call, "done" after
    pipes,        \* importer: DokeImporter.parsers, file type -> the config it was loaded from
    builders,     \* importer: DokeImporter.builders, file type -> the config it was loaded from
    md_file,      \* importer: what the file system holds at the path that is imported
    imp_call,     \* importer: the last call made on the importer, with what it met
    imp_input,    \* importer: the text the last import handed to the parser
    imp_result    \* importer: what the last call returned

registryVars == <<supported, parsers, order>>
fmVars == <<content, yaml_content, body_content, docs, fmPc, fmResult>>
flVars == <<yamlDoc, flPc, flResult>>
wlVars == <<wiki_text, links, wlPc>>
mdVars == <<ast, nodes, mdPc>>
parseVars == <<parsed, parsePc>>
ctxVars == <<ctx, child, ctxPc>>
errVars == <<err, errCause, errOut, errPc>>
defVars == <<def_content, def_result, defPc>>
btVars == <<bt_value, bt_path, host, bt_result, btPc>>
impVars == <<pipes, builders, md_file, imp_call, imp_input, imp_result>>
apiVars == <<ctxVars, errVars, defVars, btVars, impVars>>
coreVars == <<registryVars, fmVars, flVars, wlVars, mdVars, parseVars>>
vars == <<supported, parsers, order, content, yaml_content, body_content, docs,
          fmPc, fmResult, yamlDoc, flPc, flResult, wiki_text, links, wlPc, ast, nodes,
          mdPc, parsed, parsePc, ctx, child, ctxPc, err, errCause, errOut, errPc,
          def_content, def_result, defPc, bt_value, bt_path, host, bt_result, btPc,
          pipes, builders, md_file, imp_call, imp_input, imp_result>>

None == "none"

RECURSIVE SeqsUpTo(_, _)
\* All sequences over S of length at most n.
SeqsUpTo(S, n) ==
    IF n = 0 THEN {<<>>}
    ELSE LET shorter == SeqsUpTo(S, n - 1)
         IN  shorter \cup {Append(s, x) : s \in shorter, x \in S}

Range(s) == {s[i] : i \in DOMAIN s}

(***************************************************************************)
(*                            ParserRegistry                               *)
(***************************************************************************)

\* The most names one parser's supported_types() returns in this model.
MaxTypes == 2

\* The parsers of the process.
ParserIds == {"p1", "p2"}

\* <<upper, lower>>: the characters of type names that have two cases.
CasePairs == {<<"A", "a">>}

\* The characters of type names: a letter in both cases and a digit.
NameChars == {"a", "A", "1"}

\* Resource type names, as character sequences.
TypeNames ==
    {<<c>> : c \in NameChars} \cup {<<"a", c>> : c \in NameChars}

LowerChar(c) ==
    IF \E pr \in CasePairs : pr[1] = c
    THEN (CHOOSE pr \in CasePairs : pr[1] = c)[2]
    ELSE c

\* str::to_lowercase
ToLowercase(s) == [i \in 1..Len(s) |-> LowerChar(s[i])]

\* A slip of MapInsert: entry(k).or_insert(v), which keeps an existing entry.
MapInsertIfAbsent(m, k, v) ==
    [x \in (DOMAIN m) \cup {k} |-> IF x \in DOMAIN m THEN m[x] ELSE v]

\* HashMap::insert: the entry for k becomes v, every other entry is kept.
MapInsert(m, k, v) ==
    [x \in (DOMAIN m) \cup {k} |-> IF x = k THEN v ELSE m[x]]

\* A slip of RegisterFrom: only the first supported type is registered.
RegisterFirstOnly(m, types, i, p) ==
    IF types = <<>> THEN m ELSE MapInsert(m, ToLowercase(types[1]), p)

RECURSIVE RegisterFrom(_, _, _, _)
\* The loop of ParserRegistry::register from the i-th supported type on.
RegisterFrom(m, types, i, p) ==
    IF i > Len(types) THEN m
    ELSE RegisterFrom(MapInsert(m, ToLowercase(types[i]), p), types, i + 1, p)

\* ParserRegistry::new
RegistryNew == [k \in {} |-> None]

\* A slip of GetParser: the lookup key is not lowercased.
GetParserExactCase(t) ==
    IF t \in DOMAIN parsers THEN parsers[t] ELSE None

\* ParserRegistry::get_parser
GetParser(t) ==
    IF ToLowercase(t) \in DOMAIN parsers THEN parsers[ToLowercase(t)] ELSE None

\* ParserRegistry::get_supported_types (the order of the keys is not fixed)
GetSupportedTypes == DOMAIN parsers

\* ParserRegistry::get_all_parsers: one parser per entry of the map
GetAllParsers == [k \in DOMAIN parsers |-> parsers[k]]

\* p moved to the end of the registration history.
Touch(hist, p) == Append(SelectSeq(hist, LAMBDA q : q # p), p)

\* The frontmatter and flattening variables while another part is checked.
FmIdle ==
    /\ content = <<>> /\ yaml_content = <<"None">> /\ body_content = <<"None">>
    /\ docs = <<"None">> /\ fmPc = "idle" /\ fmResult = <<"None">>

FlIdle == yamlDoc = <<"Null">> /\ flPc = "idle" /\ flResult = <<"None">>

WlIdle == wiki_text = <<>> /\ links = <<>> /\ wlPc = "idle"

MdIdle == ast = <<"None">> /\ nodes = <<"None">> /\ mdPc = "idle"

ParseIdle == parsed = <<"None">> /\ parsePc = "idle"

\* The variables of the context, the errors, the default parser, the
\* top-level build and the importer while another part is checked.
CtxIdle == ctx = <<"None">> /\ child = <<"None">> /\ ctxPc = "idle"

ErrIdle == err = <<"None">> /\ errCause = <<"None">> /\ errOut = <<"None">> /\ errPc = "idle"

DefIdle == def_content = <<>> /\ def_result = <<"None">> /\ defPc = "idle"

BtIdle ==
    /\ bt_value = <<"Nil">> /\ bt_path = <<"None">> /\ host = <<>>
    /\ bt_result = <<"None">> /\ btPc = "idle"

ImpIdle ==
    /\ pipes = <<>> /\ builders = <<>> /\ md_file = <<"Missing">>
    /\ imp_call = [op |-> "none"]
    /\ imp_input = <<"None">> /\ imp_result = <<"None">>

ApiIdle == CtxIdle /\ ErrIdle /\ DefIdle /\ BtIdle /\ ImpIdle

RegistryInit ==
    /\ supported \in [ParserIds -> SeqsUpTo(TypeNames, MaxTypes)]
    /\ parsers = RegistryNew
    /\ order = <<>>
    /\ FmIdle
    /\ FlIdle /\ WlIdle /\ MdIdle /\ ParseIdle /\ ApiIdle

\* ParserRegistry::register(p)
Register(p) ==
    /\ parsers' = RegisterFrom(parsers, supported[p], 1, p)
    /\ order' = Touch(order, p)
    /\ UNCHANGED <<supported, fmVars, flVars, wlVars, mdVars, parseVars, apiVars>>

RegistryNext == \E p \in ParserIds : Register(p)

\* The registry alone: parsers are registered in any order, any number of times.
SpecRegistry == RegistryInit /\ [][RegistryNext]_vars

\* t2 differs from t at most in the case of its letters.
CaseVariant(t2, t) ==
    /\ Len(t2) = Len(t)
    /\ \A i \in 1..Len(t) :
          \/ t2[i] = t[i]
          \/ <<t2[i], t[i]>> \in CasePairs
          \/ <<t[i], t2[i]>> \in CasePairs

\* The parser of the latest register call.
LastRegistered == order[Len(order)]

SetMax(S) == CHOOSE x \in S : \A y \in S : y <= x

\* The parser most recently registered among those that support t in some case.
MostRecentFor(t) ==
    LET hits == {i \in DOMAIN order :
                    \E j \in DOMAIN supported[order[i]] :
                        ToLowercase(supported[order[i]][j]) = ToLowercase(t)}
    IN  IF hits = {} THEN None ELSE order[SetMax(hits)]

\* C1: after register(p), every case variant of every name p supports resolves
\* to p, and a name that no registered parser supports in any casing resolves
\* to nothing.
C1_CaseInsensitiveLookup ==
    /\ order # <<>> =>
          \A i \in DOMAIN supported[LastRegistered], t2 \in TypeNames :
              CaseVariant(t2, supported[LastRegistered][i])
                  => GetParser(t2) = LastRegistered
    /\ \A t2 \in TypeNames :
          (\A q \in Range(order) : \A i \in DOMAIN supported[q] :
              ~CaseVariant(t2, supported[q][i]))
              => GetParser(t2) = None

C1_Witness ==
    /\ order # <<>>
    /\ <<"a", "A">> \in Range(supported[LastRegistered])
    /\ GetParser(<<"a", "a">>) = LastRegistered
    /\ GetParser(<<"A">>) = None

\* C2: a lookup answers with the parser of the most recent register call that
\* supports the name (compared in lower case); names the later call does not
\* support keep their earlier parser.
C2_LastRegistrationWins ==
    \A t \in TypeNames : GetParser(t) = MostRecentFor(t)

C2_Witness ==
    /\ order = <<"p1", "p2">>
    /\ <<"A">> \in Range(supported["p1"])
    /\ <<"1">> \in Range(supported["p1"])
    /\ GetParser(<<"a">>) = "p2"
    /\ GetParser(<<"1">>) = "p1"

\* C3: the supported types are exactly the lowercased names of the parsers
\* registered so far, get_all_parsers has one entry per key, and no step
\* removes a key.
C3_KeysExactAndNeverRemoved ==
    /\ [](/\ GetSupportedTypes =
              UNION {{ToLowercase(supported[q][i]) : i \in DOMAIN supported[q]} :
                        q \in Range(order)}
          /\ DOMAIN GetAllParsers = GetSupportedTypes
          /\ \A k \in GetSupportedTypes : GetAllParsers[k] \in Range(order))
    /\ [][\A k \in DOMAIN parsers : k \in DOMAIN parsers']_vars

C3_Witness ==
    /\ Len(order) = 2
    /\ Cardinality(GetSupportedTypes) = 3
    /\ \E k \in GetSupportedTypes : parsers[k] = "p1"

(***************************************************************************)
(*                 parse_yaml_to_value (metadata flattening)               *)
(*                                                                         *)
(* A Yaml value is <<"Hash", entries>> with entries a sequence of          *)
(* <<key, value>> in document order (a LinkedHashMap, keys distinct),      *)
(* <<"Array", items>>, <<"String", s>>, <<"Integer", i>>, <<"Real", text>>,*)
(* <<"Boolean", b>>, <<"Null">> or <<"BadValue">>.  A serde_json Value is  *)
(* <<"String", s>>, <<"Number", "i64", i>>, <<"Number", "f64", text>>,     *)
(* <<"Bool", b>>, <<"Null">>, <<"Array", values>> or <<"Object", map>>.    *)
(***************************************************************************)

\* The most nodes (mappings, arrays and scalars) of a metadata value.
MaxYamlNodes == 3

\* The texts of the reals: one that is a finite number, one that str::parse
\* rejects, one that str::parse reads as infinity.
RealTexts == {"1.5", ".inf", "1e999"}

\* The scalars a loaded document holds.
YamlScalars ==
    {<<"String", "s">>, <<"Integer", 1>>, <<"Boolean", TRUE>>, <<"Null">>}
        \cup {<<"Real", t>> : t \in RealTexts}

\* The keys of mappings: a plain one, one with a dot in it, the empty one and
\* one that is not a string.
YamlKeys ==
    {<<"String", "a">>, <<"String", "a.a">>, <<"String", "">>, <<"Integer", 1>>}

\* The entry sequences that put one value of Y before the entries E; the
\* keys of a mapping are distinct.
YamlEntries(Y, E) ==
    {s \in {<< <<k, x>> >> \o rest : k \in YamlKeys, x \in Y, rest \in E} :
        \A j \in 2..Len(s) : s[j][1] # s[1][1]}

\* The item sequences that put one value of Y before the items A.
YamlItems(Y, A) == {<<x>> \o rest : x \in Y, rest \in A}

\* The mappings with entries E and the arrays with items A.
YamlNodes(E, A) == {<<"Hash", h>> : h \in E} \cup {<<"Array", i>> : i \in A}

\* YamlN: the values of exactly N nodes; EntriesN and ItemsN: the entry and
\* item sequences whose values have N nodes in all.
Yaml1 == YamlScalars \cup YamlNodes({<<>>}, {<<>>})

Entries1 == YamlEntries(Yaml1, {<<>>})

Items1 == YamlItems(Yaml1, {<<>>})

Yaml2 == YamlNodes(Entries1, Items1)

Entries2 == YamlEntries(Yaml1, Entries1) \cup YamlEntries(Yaml2, {<<>>})

Items2 == YamlItems(Yaml1, Items1) \cup YamlItems(Yaml2, {<<>>})

Yaml3 == YamlNodes(Entries2, Items2)

Entries3 ==
    IF MaxYamlNodes < 4 THEN {}
    ELSE YamlEntries(Yaml1, Entries2) \cup YamlEntries(Yaml2, Entries1)
            \cup YamlEntries(Yaml3, {<<>>})

Items3 ==
    IF MaxYamlNodes < 4 THEN {}
    ELSE YamlItems(Yaml1, Items2) \cup YamlItems(Yaml2, Items1)
            \cup YamlItems(Yaml3, {<<>>})

Yaml4 == IF MaxYamlNodes < 4 THEN {} ELSE YamlNodes(Entries3, Items3)

YamlBySize == <<Yaml1, Yaml2, Yaml3, Yaml4>>

\* Mappings of two entries whose values flatten to the same path: a dotted key
\* beside a nested mapping, and a plain key beside a mapping under the empty
\* key, in both orders.
YamlCollidingDocs ==
    UNION {{<<"Hash", <<e1, e2>> >>, <<"Hash", <<e2, e1>> >>} :
              e1 \in {<< <<"String", "a.a">>, x>> :
                         x \in YamlScalars \cup {<<"Array", <<>> >>}},
              e2 \in {<< <<"String", "a">>, <<"Hash", << <<<<"String", "a">>, x>> >> >> >> :
                         x \in YamlScalars}}
        \cup
    UNION {{<<"Hash", <<e1, e2>> >>, <<"Hash", <<e2, e1>> >>} :
              e1 \in {<< <<"String", "a">>, x>> :
                         x \in YamlScalars \cup {<<"Array", <<>> >>}},
              e2 \in {<< <<"String", "">>, <<"Hash", << <<<<"String", "a">>, x>> >> >> >> :
                         x \in YamlScalars}}

\* The metadata values the loader may hand over: those of at most
\* MaxYamlNodes nodes (of at most four, the largest size built here) and the
\* colliding mappings.
YamlDocs == UNION {YamlBySize[n] : n \in 1..MaxYamlNodes} \cup YamlCollidingDocs

\* HashMap::new
EmptyMap == [k \in {} |-> <<"Null">>]

\* str::parse::<f64>: Ok of a finite or an infinite float, or Err.
ParseF64(text) ==
    CASE text = "1.5" -> <<"Ok", <<"finite", text>> >>
      [] text = "1e999" -> <<"Ok", <<"inf">> >>
      [] OTHER -> <<"Err">>

\* serde_json::Number::from_f64: None unless the float is finite.
FromF64(num) ==
    IF num[1] = "finite" THEN <<"Some", <<"Number", "f64", num[2]>> >>
    ELSE <<"None">>

\* A slip of NewPath: the parent path is forgotten.
NewPathKeyOnly(current_path, key_str) == key_str

\* new_path of the Hash branch
NewPath(current_path, key_str) ==
    IF current_path = "" THEN key_str ELSE current_path \o "." \o key_str

\* A slip of ItemPath: array items are flattened under the array's path.
ItemPathKept(current_path) == current_path

\* The path an array item is flattened under: the literal "".
ItemPath(current_path) == ""

RECURSIVE ParseYamlToValue(_, _, _), ParseHashFrom(_, _, _, _), ParseItemsFrom(_, _, _)

\* The Yaml::Real branch; result is <<"Ok", map>>.
ParseReal(f, result, current_path) ==
    IF ParseF64(f)[1] = "Ok"
    THEN IF FromF64(ParseF64(f)[2])[1] = "Some"
         THEN <<"Ok", MapInsert(result[2], current_path, FromF64(ParseF64(f)[2])[2])>>
         ELSE <<"Panic">>
    ELSE result

\* parse_yaml_to_value(yaml, result, current_path): the map after the call as
\* <<"Ok", map>>, or <<"Panic">> when the call panics.
ParseYamlToValue(yaml, result, current_path) ==
    IF result[1] = "Panic" THEN result
    ELSE CASE yaml[1] = "Hash" -> ParseHashFrom(yaml[2], 1, result, current_path)
           [] yaml[1] = "String" ->
                <<"Ok", MapInsert(result[2], current_path, <<"String", yaml[2]>>)>>
           [] yaml[1] = "Integer" ->
                <<"Ok", MapInsert(result[2], current_path, <<"Number", "i64", yaml[2]>>)>>
           [] yaml[1] = "Real" -> ParseReal(yaml[2], result, current_path)
           [] yaml[1] = "Boolean" ->
                <<"Ok", MapInsert(result[2], current_path, <<"Bool", yaml[2]>>)>>
           [] yaml[1] = "Array" ->
                LET values == ParseItemsFrom(yaml[2], 1, current_path)
                IN  IF values[1] = "Panic" THEN values
                    ELSE <<"Ok", MapInsert(result[2], current_path,
                                           <<"Array", values[2]>>)>>
           [] yaml[1] = "Null" ->
                <<"Ok", MapInsert(result[2], current_path, <<"Null">>)>>
           [] OTHER -> result

\* The loop of the Hash branch from the i-th entry on.
ParseHashFrom(hash, i, result, current_path) ==
    IF i > Len(hash) \/ result[1] = "Panic" THEN result
    ELSE IF hash[i][1][1] = "String"
         THEN ParseHashFrom(hash, i + 1,
                  ParseYamlToValue(hash[i][2], result,
                                   NewPath(current_path, hash[i][1][2])),
                  current_path)
         ELSE ParseHashFrom(hash, i + 1, result, current_path)

\* The map closure of the Array branch from the i-th item on: <<"Ok", values>>
\* or <<"Panic">>.
ParseItemsFrom(arr, i, current_path) ==
    IF i > Len(arr) THEN <<"Ok", <<>> >>
    ELSE LET temp_map == ParseYamlToValue(arr[i], <<"Ok", EmptyMap>>,
                                          ItemPath(current_path))
             rest == ParseItemsFrom(arr, i + 1, current_path)
         IN  IF temp_map[1] = "Panic" \/ rest[1] = "Panic" THEN <<"Panic">>
             ELSE <<"Ok", << <<"Object", temp_map[2]>> >> \o rest[2]>>

NoResult == <<"None">>

FlattenInit ==
    /\ yamlDoc \in YamlDocs
    /\ flPc = "start"
    /\ flResult = NoResult
    /\ supported = <<>> /\ parsers = RegistryNew /\ order = <<>>
    /\ FmIdle /\ WlIdle /\ MdIdle /\ ParseIdle /\ ApiIdle

\* A call parse_yaml_to_value(yamlDoc, &mut HashMap::new(), "").
Flatten ==
    /\ flPc = "start"
    /\ flResult' = ParseYamlToValue(yamlDoc, <<"Ok", EmptyMap>>, "")
    /\ flPc' = "done"
    /\ UNCHANGED <<yamlDoc, registryVars, fmVars, wlVars, mdVars, parseVars, apiVars>>

FlattenNext == Flatten

\* Flattening alone: one metadata value, one call.
SpecFlatten == FlattenInit /\ [][FlattenNext]_vars

RECURSIVE LeafSeq(_, _), LeafSeqFrom(_, _, _)
\* The values of a metadata value that are not mappings, in document order,
\* each with the string keys that lead to it through nested mappings.
LeafSeq(yaml, keys) ==
    IF yaml[1] = "Hash" THEN LeafSeqFrom(yaml[2], 1, keys)
    ELSE <<[keys |-> keys, val |-> yaml]>>

LeafSeqFrom(entries, i, keys) ==
    IF i > Len(entries) THEN <<>>
    ELSE (IF entries[i][1][1] = "String"
          THEN LeafSeq(entries[i][2], Append(keys, entries[i][1][2]))
          ELSE <<>>) \o LeafSeqFrom(entries, i + 1, keys)

RECURSIVE InnerMapSeq(_, _), InnerMapSeqFrom(_, _, _)
\* The key paths of the mappings nested in a metadata value (the intermediate
\* mapping keys), in document order.
InnerMapSeq(yaml, keys) ==
    IF yaml[1] = "Hash"
    THEN (IF keys = <<>> THEN <<>> ELSE <<keys>>) \o InnerMapSeqFrom(yaml[2], 1, keys)
    ELSE <<>>

InnerMapSeqFrom(entries, i, keys) ==
    IF i > Len(entries) THEN <<>>
    ELSE (IF entries[i][1][1] = "String"
          THEN InnerMapSeq(entries[i][2], Append(keys, entries[i][1][2]))
          ELSE <<>>) \o InnerMapSeqFrom(entries, i + 1, keys)

RECURSIVE Dotted(_)
\* k1.k2.....kn
Dotted(keys) ==
    IF keys = <<>> THEN ""
    ELSE IF Len(keys) = 1 THEN keys[1]
    ELSE keys[1] \o "." \o Dotted(Tail(keys))

\* The key paths of the values and of the nested mappings of yamlDoc.
DocPaths ==
    [i \in DOMAIN LeafSeq(yamlDoc, <<>>) |-> LeafSeq(yamlDoc, <<>>)[i].keys]
        \o InnerMapSeq(yamlDoc, <<>>)

\* No key on a path of yamlDoc is the empty string.
KeysNonEmpty == \A i \in DOMAIN DocPaths : \A j \in DOMAIN DocPaths[i] : DocPaths[i][j] # ""

\* No two paths of yamlDoc join to the same dotted key.
PathsDistinct ==
    \A i, j \in DOMAIN DocPaths : i # j => Dotted(DocPaths[i]) # Dotted(DocPaths[j])

\* A real whose text converts to a JSON number.
RealConverts(text) ==
    /\ ParseF64(text)[1] = "Ok"
    /\ FromF64(ParseF64(text)[2])[1] = "Some"

\* A string, integer or boolean, or a real that converts.
IsEmittedScalar(v) ==
    \/ v[1] \in {"String", "Integer", "Boolean"}
    \/ v[1] = "Real" /\ RealConverts(v[2])

\* The JSON value equal to such a scalar.
JsonScalar(v) ==
    CASE v[1] = "String" -> <<"String", v[2]>>
      [] v[1] = "Integer" -> <<"Number", "i64", v[2]>>
      [] v[1] = "Boolean" -> <<"Bool", v[2]>>
      [] v[1] = "Real" -> <<"Number", "f64", v[2]>>

\* Every emitted scalar under nested mappings has its entry at k1.k2.....kn,
\* and no nested mapping has an entry of its own.
ScalarsAtDottedKeys ==
    /\ \A i \in DOMAIN LeafSeq(yamlDoc, <<>>) :
          LET l == LeafSeq(yamlDoc, <<>>)[i]
          IN  IsEmittedScalar(l.val) =>
                  /\ Dotted(l.keys) \in DOMAIN flResult[2]
                  /\ flResult[2][Dotted(l.keys)] = JsonScalar(l.val)
    /\ \A i \in DOMAIN InnerMapSeq(yamlDoc, <<>>) :
          Dotted(InnerMapSeq(yamlDoc, <<>>)[i]) \notin DOMAIN flResult[2]

ArraysAtTheirPath ==
    /\ \A i \in DOMAIN LeafSeq(yamlDoc, <<>>) :
          LET l == LeafSeq(yamlDoc, <<>>)[i]
          IN  /\ l.val[1] = "Array" =>
                    /\ Dotted(l.keys) \in DOMAIN flResult[2]
                    /\ flResult[2][Dotted(l.keys)] =
                          <<"Array",
                            [n \in 1..Len(l.val[2]) |->
                                <<"Object",
                                  ParseYamlToValue(l.val[2][n], <<"Ok", EmptyMap>>, "")[2]>>]>>
              /\ l.val[1] = "Null" =>
                    /\ Dotted(l.keys) \in DOMAIN flResult[2]
                    /\ flResult[2][Dotted(l.keys)] = <<"Null">>
    /\ \A k \in DOMAIN flResult[2] :
          \E i \in DOMAIN LeafSeq(yamlDoc, <<>>) :
              k = Dotted(LeafSeq(yamlDoc, <<>>)[i].keys)

C10_Original ==
    (flPc = "done" /\ yamlDoc[1] = "Hash" /\ KeysNonEmpty /\ PathsDistinct) =>
        \A i \in DOMAIN LeafSeq(yamlDoc, <<>>) :
            LET l == LeafSeq(yamlDoc, <<>>)[i]
            IN  l.val[1] = "Real" =>
                    /\ flResult[1] = "Ok"
                    /\ IF RealConverts(l.val[2])
                       THEN /\ Dotted(l.keys) \in DOMAIN flResult[2]
                            /\ flResult[2][Dotted(l.keys)] = <<"Number", "f64", l.val[2]>>
                       ELSE Dotted(l.keys) \notin DOMAIN flResult[2]
                    /\ \A j \in DOMAIN LeafSeq(yamlDoc, <<>>) :
                          LeafSeq(yamlDoc, <<>>)[j].val[1] # "Real"
                              => Dotted(LeafSeq(yamlDoc, <<>>)[j].keys) \in DOMAIN flResult[2]

-----------------------------------------------------------------------------
\* ParserContext (src/src/parser_api.rs).  A path that is displayed is a
\* sequence of units: characters, or a byte that is no valid Unicode.

InvalidByte == "0xFF"
Replacement == "U+FFFD"

\* Path::display().to_string(): the path's text, the replacement character
\* standing for what is not Unicode.
Display(path) ==
    [i \in DOMAIN path |-> IF path[i] = InvalidByte THEN Replacement ELSE path[i]]

RootPaths == {"/dokedex", "/project"}
ResourceTypes == {"Item", "Character"}
ParserNames == {"ItemParser", "DokeMarkdownParser"}
FilePaths == {<<"t", ".", "m", "d">>, <<"s", ".", "m", "d">>, <<"t", InvalidByte, ".", "m", "d">>}

JsonString(x) == <<"String", x>>

\* ParserContext::new
ContextNew(dokedex_root, project_root, resource_type, current_file, parser_name) ==
    [dokedex_root |-> dokedex_root, project_root |-> project_root,
     resource_type |-> resource_type, current_file |-> current_file,
     parser_name |-> parser_name, parent_resource |-> <<"None">>, metadata |-> EmptyMap]

\* ParserContext::with_parent_resource
WithParentResource(c, parent) == [c EXCEPT !.parent_resource = <<"Some", parent>>]

\* ParserContext::with_metadata
WithMetadata(c, key, value) ==
    [c EXCEPT !.metadata = [k \in DOMAIN c.metadata \cup {key} |->
                               IF k = key THEN value ELSE c.metadata[k]]]

\* A slip of GetCurrentState: the context's metadata goes into the snapshot.
GetCurrentStateWithMetadata(c) ==
    [k \in {"resource_type", "file", "parser"} \cup DOMAIN c.metadata |->
        CASE k = "resource_type" -> JsonString(c.resource_type)
          [] k = "file" -> JsonString(Display(c.current_file))
          [] k = "parser" -> JsonString(c.parser_name)
          [] OTHER -> c.metadata[k]]

\* ParserContext::get_current_state
GetCurrentState(c) ==
    [k \in {"resource_type", "file", "parser"} |->
        CASE k = "resource_type" -> JsonString(c.resource_type)
          [] k = "file" -> JsonString(Display(c.current_file))
          [] k = "parser" -> JsonString(c.parser_name)]

\* ParserContext::create_child
CreateChildOf(c, resource_type) ==
    WithParentResource(
        ContextNew(c.dokedex_root, c.project_root, resource_type, c.current_file,
                   c.parser_name),
        GetCurrentState(c))

\* The contexts a caller can have built: new ones, with or without a parent
\* snapshot and a metadata entry.
NewContexts ==
    {ContextNew(d, pr, t, f, n) :
        d \in {"/dokedex"}, pr \in RootPaths, t \in ResourceTypes, f \in FilePaths,
        n \in ParserNames}

Contexts ==
    NewContexts
    \cup {WithMetadata(c, "depth", <<"Number", 1>>) : c \in NewContexts}
    \cup {WithParentResource(c, parent) :
             c \in NewContexts, parent \in {GetCurrentState(ContextNew("/dokedex", "/project",
                                                "Item", <<"s", ".", "m", "d">>, "ItemParser"))}}
    \cup {WithMetadata(WithParentResource(c, parent), "depth", <<"Number", 2>>) :
             c \in NewContexts, parent \in {GetCurrentState(ContextNew("/dokedex", "/project",
                                                "Item", <<"s", ".", "m", "d">>, "ItemParser"))}}

ContextInit ==
    /\ ctx \in Contexts /\ child = <<"None">> /\ ctxPc = "start"
    /\ supported = <<>> /\ parsers = RegistryNew /\ order = <<>>
    /\ FmIdle /\ FlIdle /\ WlIdle /\ MdIdle /\ ParseIdle
    /\ ErrIdle /\ DefIdle /\ BtIdle /\ ImpIdle

\* c.create_child(t)
CreateChild(t) ==
    /\ ctxPc = "start"
    /\ child' = CreateChildOf(ctx, t)
    /\ ctxPc' = "done"
    /\ UNCHANGED <<ctx, coreVars, errVars, defVars, btVars, impVars>>

\* Nested parsing goes on with the child as the context.
Descend ==
    /\ ctxPc = "done"
    /\ ctx' = child
    /\ child' = <<"None">>
    /\ ctxPc' = "start"
    /\ UNCHANGED <<coreVars, errVars, defVars, btVars, impVars>>

ContextNext == (\E t \in ResourceTypes : CreateChild(t)) \/ Descend

SpecContext == ContextInit /\ [][ContextNext]_vars

-----------------------------------------------------------------------------
\* DokeError (src/src/error.rs): one record per variant, with its fields.

UnknownPath == <<"u", "n", "k", "n", "o", "w", "n">>

NoSource == <<"None">>

InvalidFrontmatterError(message, file, line) ==
    [variant |-> "InvalidFrontmatter", message |-> message, file |-> file, line |-> line]

SyntaxError(message, line, col, file, parser, source) ==
    [variant |-> "SyntaxError", message |-> message, line |-> line, col |-> col,
     file |-> file, parser |-> parser, source |-> source]

ValidationError(message, file, parser, span) ==
    [variant |-> "ValidationError", message |-> message, file |-> file, parser |-> parser,
     span |-> span]

TypeMismatch(expected, found, file, parser) ==
    [variant |-> "TypeMismatch", expected |-> expected, found |-> found, file |-> file,
     parser |-> parser]

ParserNotFound(parser, target_type) ==
    [variant |-> "ParserNotFound", parser |-> parser, target_type |-> target_type]

IoError(source, file) == [variant |-> "IoError", source |-> source, file |-> file]

FileNotFound(path) == [variant |-> "FileNotFound", path |-> path]

ConfigError(message, file, source) ==
    [variant |-> "ConfigError", message |-> message, file |-> file, source |-> source]

JsonError(source, file) == [variant |-> "JsonError", source |-> source, file |-> file]

YamlError(source, file) == [variant |-> "YamlError", source |-> source, file |-> file]

ExportError(message, file, source) ==
    [variant |-> "ExportError", message |-> message, file |-> file, source |-> source]

ImportErrorOf(message, file) ==
    [variant |-> "ImportError", message |-> message, file |-> file]

GrammarError(message, source) ==
    [variant |-> "GrammarError", message |-> message, source |-> source]

InternalError(message) == [variant |-> "InternalError", message |-> message]

NotImplemented(message) == [variant |-> "NotImplemented", message |-> message]

\* DokeError::with_source
WithSourceOf(e, source) ==
    CASE e.variant = "SyntaxError" ->
            SyntaxError(e.message, e.line, e.col, e.file, e.parser, <<"Some", source>>)
      [] e.variant = "ConfigError" -> ConfigError(e.message, e.file, <<"Some", source>>)
      [] e.variant = "ExportError" -> ExportError(e.message, e.file, <<"Some", source>>)
      [] e.variant = "GrammarError" -> GrammarError(e.message, <<"Some", source>>)
      [] OTHER -> e

\* DokeError::file_path
FilePathOf(e) ==
    CASE e.variant \in {"SyntaxError", "ValidationError", "TypeMismatch", "IoError",
                        "ConfigError", "JsonError", "YamlError", "ExportError",
                        "ImportError"} -> <<"Some", e.file>>
      [] e.variant = "FileNotFound" -> <<"Some", e.path>>
      [] OTHER -> <<"None">>

\* The errors a caller can hold: every variant over a few field values,
\* those with a source slot with and without an inner error.
ErrorFiles == {<<"t", ".", "m", "d">>, UnknownPath}

ErrorsWith(sources) ==
    UNION {{InvalidFrontmatterError("m", f, 0),
            ValidationError("m", f, "ItemParser", <<"None">>),
            TypeMismatch("int", "str", f, "ItemParser"),
            IoError("io", f), FileNotFound(f), JsonError("json", f), YamlError("scan", f),
            ImportErrorOf("m", f)}
           \cup {SyntaxError("m", 1, 1, f, "ItemParser", src) : src \in sources}
           \cup {ConfigError("m", f, src) : src \in sources}
           \cup {ExportError("m", f, src) : src \in sources} : f \in ErrorFiles}
    \cup {ParserNotFound("ItemParser", "Item"), InternalError("m"), NotImplemented("m")}
    \cup {GrammarError("m", src) : src \in sources}

PlainErrors == ErrorsWith({NoSource})

Errors == ErrorsWith({NoSource} \cup {<<"Some", e>> : e \in PlainErrors})

ErrorInit ==
    /\ err \in Errors /\ errCause \in PlainErrors /\ errOut = <<"None">> /\ errPc = "start"
    /\ supported = <<>> /\ parsers = RegistryNew /\ order = <<>>
    /\ FmIdle /\ FlIdle /\ WlIdle /\ MdIdle /\ ParseIdle
    /\ CtxIdle /\ DefIdle /\ BtIdle /\ ImpIdle

\* err.file_path()
FilePath ==
    /\ errPc = "start"
    /\ errOut' = FilePathOf(err)
    /\ errPc' = "file_path"
    /\ UNCHANGED <<err, errCause, coreVars, ctxVars, defVars, btVars, impVars>>

\* err.with_source(errCause)
WithSource ==
    /\ errPc = "start"
    /\ errOut' = WithSourceOf(err, errCause)
    /\ errPc' = "with_source"
    /\ UNCHANGED <<err, errCause, coreVars, ctxVars, defVars, btVars, impVars>>

ErrorNext == FilePath \/ WithSource

SpecError == ErrorInit /\ [][ErrorNext]_vars

\* C22 as stated: file_path() is Some of the file for every variant that
\* carries a file (InvalidFrontmatter among them), and None only for
\* variants without one.
C22_Original ==
    errPc = "file_path" =>
        /\ "file" \in DOMAIN err => errOut = <<"Some", err.file>>
        /\ errOut = <<"None">> => ~ ("file" \in DOMAIN err \/ "path" \in DOMAIN err)

\* C23 as stated: with_source on a ValidationError gives a ValidationError
\* of the same message, file and parser that carries the cause as its inner
\* source; on a variant without a source slot it gives the error back
\* unchanged.
C23_Original ==
    errPc = "with_source" =>
        /\ err.variant = "ValidationError" =>
              /\ errOut.variant = "ValidationError"
              /\ errOut.message = err.message /\ errOut.file = err.file
              /\ errOut.parser = err.parser
              /\ "source" \in DOMAIN errOut
              /\ errOut.source = <<"Some", errCause>>
        /\ ("source" \notin DOMAIN err /\ err.variant # "ValidationError") => errOut = err

(***************************************************************************)
(* parse_frontmatter (src/src/parsers/doke_parser.rs).                     *)
(* A document is a sequence of characters.  The pattern of line 60 (three  *)
(* dashes at the start, white space, a newline, a lazy capture, a newline, *)
(* three dashes, white space, a newline, a greedy capture of the rest)     *)
(* is matched as the regex crate matches it: the first alternative in      *)
(* preference order wins, a greedy repetition preferring more and a lazy   *)
(* one preferring less.  What the YAML loader makes of the captured block  *)
(* is chosen by the environment, except that a block of white space holds  *)
(* no document.                                                            *)
(***************************************************************************)
MaxLines == 5

NL == "\n"

Dashes == <<"-", "-", "-">>

\* The lines documents are written with: empty, blank, the delimiter, the
\* delimiter followed by a space, a line that only begins like the delimiter,
\* and a line of text.
LineKinds == {<<>>, <<" ">>, Dashes, Dashes \o <<" ">>, Dashes \o <<"a">>, <<"a">>}

RECURSIVE TextOf(_, _)
\* The text of the given lines, each ended by a newline except, when nl is
\* FALSE, the last.
TextOf(lines, nl) ==
    IF lines = <<>> THEN <<>>
    ELSE IF Len(lines) = 1 THEN Head(lines) \o (IF nl THEN <<NL>> ELSE <<>>)
    ELSE Head(lines) \o <<NL>> \o TextOf(Tail(lines), nl)

Documents == {TextOf(lines, nl) : lines \in SeqsUpTo(LineKinds, MaxLines), nl \in BOOLEAN}

\* What the loader can make of a block that is not blank.
LoadedDocs ==
    { <<"Hash", << << <<"String", "a">>, <<"String", "s">> >> >> >>,
      <<"Hash", << << <<"String", "a">>,
                      <<"Hash", << << <<"String", "a">>, <<"Integer", 1>> >> >> >> >> >> >>,
      <<"Hash", << << <<"String", "a">>, <<"Real", "1e999">> >> >> >>,
      <<"Array", << <<"String", "s">> >> >> }

\* \s
IsSpace(c) == c \in {" ", NL}

\* The literal lit is in s at position i.
HasAt(s, i, lit) ==
    /\ i >= 1
    /\ i + Len(lit) - 1 <= Len(s)
    /\ \A j \in 1..Len(lit) : s[i + j - 1] = lit[j]

RECURSIVE SpaceRunEnd(_, _)
\* The position after the longest run of \s that starts at i.
SpaceRunEnd(s, i) ==
    IF i <= Len(s) /\ IsSpace(s[i]) THEN SpaceRunEnd(s, i + 1) ELSE i

\* \s*\n at i: the positions the final \n can take.
SpaceNlEnds(s, i) == {p \in i..(SpaceRunEnd(s, i) - 1) : s[p] = NL}

Largest(S) == CHOOSE x \in S : \A y \in S : y <= x

Smallest(S) == CHOOSE x \in S : \A y \in S : x <= y

\* A slip of CloseEnd: the closing delimiter may also end the text.
CloseEndOrEof(s, i) ==
    IF SpaceNlEnds(s, i) # {} THEN Largest(SpaceNlEnds(s, i))
    ELSE IF SpaceRunEnd(s, i) > Len(s) THEN Len(s)
    ELSE 0

\* \s*\n after the closing ---, at i: greedy, and whatever follows matches
\* the second group, so the last possible \n is taken; 0 when there is none.
CloseEnd(s, i) ==
    IF SpaceNlEnds(s, i) # {} THEN Largest(SpaceNlEnds(s, i)) ELSE 0

\* The lazy first group and \n---\s*\n from cs on: the first \n that is
\* followed by --- and \s*\n is taken; 0 when there is none.
LazyClose(s, cs) ==
    LET ends == {q \in cs..Len(s) :
                    s[q] = NL /\ HasAt(s, q + 1, Dashes) /\ CloseEnd(s, q + 4) # 0}
    IN  IF ends = {} THEN 0 ELSE Smallest(ends)

\* frontmatter_regex.captures(content): the two groups, or no match.
Captures(s) ==
    IF ~HasAt(s, 1, Dashes) THEN <<"NoMatch">>
    ELSE LET opens == {p \in SpaceNlEnds(s, 4) : LazyClose(s, p + 1) # 0}
         IN  IF opens = {} THEN <<"NoMatch">>
             ELSE LET p == Largest(opens)
                      q == LazyClose(s, p + 1)
                      e == CloseEnd(s, q + 4)
                  IN  <<"Match", SubSeq(s, p + 1, q - 1), SubSeq(s, e + 1, Len(s))>>

\* YamlLoader::load_from_str: an error, or the documents of the text; no
\* document when the text is blank.
LoadFromStr(text) ==
    IF \A i \in DOMAIN text : IsSpace(text[i]) THEN {<<"Ok", <<>> >>}
    ELSE {<<"Err">>, <<"Ok", <<>> >>} \cup {<<"Ok", <<d>> >> : d \in LoadedDocs}

\* The error parse_frontmatter makes: the file is the literal "unknown", the line 0.
InvalidFrontmatter(message) == <<"Err", InvalidFrontmatterError(message, UnknownPath, 0)>>

\* A slip of AfterLoad: a loader error is taken for an absent block.
AfterLoadLenient(loaded, body) ==
    IF loaded[1] = "Err" THEN <<"Ok", EmptyMap, body>>
    ELSE IF loaded[2] = <<>> THEN InvalidFrontmatter("Empty YAML frontmatter")
    ELSE LET frontmatter == ParseYamlToValue(loaded[2][1], <<"Ok", EmptyMap>>, "")
         IN  IF frontmatter[1] = "Panic" THEN <<"Panic">>
             ELSE <<"Ok", frontmatter[2], body>>

\* The match branch of parse_frontmatter after the loader has answered.
AfterLoad(loaded, body) ==
    IF loaded[1] = "Err" THEN InvalidFrontmatter("YAML parsing error")
    ELSE IF loaded[2] = <<>> THEN InvalidFrontmatter("Empty YAML frontmatter")
    ELSE LET frontmatter == ParseYamlToValue(loaded[2][1], <<"Ok", EmptyMap>>, "")
         IN  IF frontmatter[1] = "Panic" THEN <<"Panic">>
             ELSE <<"Ok", frontmatter[2], body>>

FrontmatterInit ==
    /\ content \in Documents
    /\ yaml_content = <<"None">> /\ body_content = <<"None">> /\ docs = <<"None">>
    /\ fmPc = "start" /\ fmResult = NoResult
    /\ supported = <<>> /\ parsers = RegistryNew /\ order = <<>>
    /\ FlIdle /\ WlIdle /\ MdIdle /\ ParseIdle /\ ApiIdle

\* parse_frontmatter(content)
ParseFrontmatter ==
    /\ fmPc = "start"
    /\ LET caps == Captures(content)
       IN  IF caps[1] = "Match"
           THEN \E loaded \in LoadFromStr(caps[2]) :
                   /\ yaml_content' = caps[2]
                   /\ body_content' = caps[3]
                   /\ docs' = loaded
                   /\ fmResult' = AfterLoad(loaded, caps[3])
           ELSE /\ fmResult' = <<"Ok", EmptyMap, content>>
                /\ UNCHANGED <<yaml_content, body_content, docs>>
    /\ fmPc' = "done"
    /\ UNCHANGED <<content, registryVars, flVars, wlVars, mdVars, parseVars, apiVars>>

FrontmatterNext == ParseFrontmatter

SpecFrontmatter == FrontmatterInit /\ [][FrontmatterNext]_vars

RECURSIVE LinesFrom(_, _)
\* The lines of s from position i on: the text of each, whether a newline
\* ends it, and the position after it.
LinesFrom(s, i) ==
    IF i > Len(s) THEN <<>>
    ELSE LET nls == {p \in i..Len(s) : s[p] = NL}
         IN  IF nls = {}
             THEN <<[text |-> SubSeq(s, i, Len(s)), ended |-> FALSE, next |-> Len(s) + 1]>>
             ELSE <<[text |-> SubSeq(s, i, Smallest(nls) - 1), ended |-> TRUE,
                     next |-> Smallest(nls) + 1]>>
                      \o LinesFrom(s, Smallest(nls) + 1)

DocLines == LinesFrom(content, 1)

\* A line of --- and nothing else but trailing spaces, ended by a newline.
IsDelimiterLine(l) ==
    /\ l.ended
    /\ HasAt(l.text, 1, Dashes)
    /\ \A i \in 4..Len(l.text) : l.text[i] = " "

\* A line that is exactly ---, ended by a newline.
IsDashLine(l) == l.ended /\ l.text = Dashes

IsBlankLine(l) == \A i \in DOMAIN l.text : l.text[i] = " "

\* The document begins with a delimiter line, and after at least one line
\* in between there is another.
HasDelimiterPair ==
    /\ Len(DocLines) >= 3
    /\ IsDelimiterLine(DocLines[1])
    /\ \E j \in 3..Len(DocLines) : IsDelimiterLine(DocLines[j])

\* C4: a document that does not begin with a delimiter line / lines /
\* delimiter line pair is returned whole as the body, with an empty map.
C4_NoFrontmatterWholeBody ==
    (fmPc = "done" /\ ~HasDelimiterPair) => fmResult = <<"Ok", EmptyMap, content>>

C4_Witness ==
    /\ fmPc = "done"
    /\ ~HasDelimiterPair
    /\ HasAt(content, 1, Dashes)
    /\ Len(DocLines) >= 3
    /\ fmResult = <<"Ok", EmptyMap, content>>

\* The first delimiter line after the opening line, 0 when there is none.
ClosingLine ==
    LET js == {j \in 2..Len(DocLines) : IsDelimiterLine(DocLines[j])}
    IN  IF js = {} THEN 0 ELSE Smallest(js)

\* The document begins with a --- line, a block with a line that is not
\* blank, and a closing --- line, and the loader found metadata in the block.
HasWellFormedFrontmatter ==
    /\ Len(DocLines) >= 3
    /\ IsDashLine(DocLines[1])
    /\ ClosingLine >= 3
    /\ IsDashLine(DocLines[ClosingLine])
    /\ \E j \in 2..(ClosingLine - 1) : ~IsBlankLine(DocLines[j])
    /\ docs[1] = "Ok" /\ docs[2] # <<>>

\* The text following the closing delimiter line.
TextAfterClosingLine == SubSeq(content, DocLines[ClosingLine].next, Len(content))

\* C5 as stated: a document beginning with a --- line, a well-formed block and
\* a closing --- line gives the block's flattened keys and, as body, exactly
\* the text following the closing line.  (Stated here only for metadata whose
\* flattening returns.)
C5_Original ==
    (/\ fmPc = "done"
     /\ HasWellFormedFrontmatter
     /\ ParseYamlToValue(docs[2][1], <<"Ok", EmptyMap>>, "")[1] = "Ok")
        => fmResult = <<"Ok", ParseYamlToValue(docs[2][1], <<"Ok", EmptyMap>>, "")[2],
                        TextAfterClosingLine>>

\* C6 as stated: an opening --- line followed by a closing --- line with no
\* lines or only blank lines between them fails with InvalidFrontmatter.
C6_Original ==
    (/\ fmPc = "done"
     /\ Len(DocLines) >= 2
     /\ IsDashLine(DocLines[1])
     /\ ClosingLine >= 2
     /\ IsDashLine(DocLines[ClosingLine])
     /\ \A j \in 2..(ClosingLine - 1) : IsBlankLine(DocLines[j]))
        => (fmResult[1] = "Err" /\ fmResult[2].variant = "InvalidFrontmatter")

\* C7: when the block between a delimiter pair is not valid YAML, the result
\* is Err(InvalidFrontmatter).
C7_InvalidYamlIsError ==
    (fmPc = "done" /\ HasDelimiterPair /\ docs = <<"Err">>)
        => (fmResult[1] = "Err" /\ fmResult[2].variant = "InvalidFrontmatter")

C7_Witness ==
    /\ fmPc = "done"
    /\ HasDelimiterPair
    /\ docs = <<"Err">>
    /\ yaml_content = <<"a">>
    /\ fmResult = InvalidFrontmatter("YAML parsing error")

(***************************************************************************)
(* extract_wiki_links_from_text (src/src/parsers/doke_parser.rs).          *)
(* A text is a sequence of characters.  The pattern of line 392 is two     *)
(* opening brackets, one or more characters that are not a closing         *)
(* bracket (the capture), and two closing brackets; captures_iter yields   *)
(* the leftmost match and goes on after its end.                           *)
(***************************************************************************)
MaxTokens == 6

\* The pieces texts are written with.
TextTokens == {<<"[", "[">>, <<"]", "]">>, <<"[">>, <<"]">>, <<"a">>, <<"b">>}

RECURSIVE Concat(_)
Concat(pieces) == IF pieces = <<>> THEN <<>> ELSE Head(pieces) \o Concat(Tail(pieces))

Texts == {Concat(ts) : ts \in SeqsUpTo(TextTokens, MaxTokens)}

\* [^\]]+ from i on: the position after the longest run without a closing
\* bracket.
NameRunEnd(t, i) ==
    LET stops == {j \in i..Len(t) : t[j] = "]"}
    IN  IF stops = {} THEN Len(t) + 1 ELSE Smallest(stops)

\* The pattern at position i: the position of its last character, 0 when it
\* does not match there.  A shorter run of the capture is followed by a
\* character of the run, never by a closing bracket, so only the longest run
\* can match.
MatchEndAt(t, i) ==
    IF /\ HasAt(t, i, <<"[", "[">>)
       /\ NameRunEnd(t, i + 2) > i + 2
       /\ HasAt(t, NameRunEnd(t, i + 2), <<"]", "]">>)
    THEN NameRunEnd(t, i + 2) + 1
    ELSE 0

RECURSIVE CapturesIter(_, _)
\* wiki_link_regex.captures_iter(text), from position from on: the matches as
\* their first and last positions.
CapturesIter(t, from) ==
    LET starts == {i \in from..Len(t) : MatchEndAt(t, i) # 0}
    IN  IF starts = {} THEN <<>>
        ELSE <<[start |-> Smallest(starts), end |-> MatchEndAt(t, Smallest(starts))]>>
                 \o CapturesIter(t, MatchEndAt(t, Smallest(starts)) + 1)

\* A slip of LinkText: the whole match is taken for the name.
LinkTextWhole(t, cap) == SubSeq(t, cap.start, cap.end)

\* cap.get(1)
LinkText(t, cap) == SubSeq(t, cap.start + 2, cap.end - 2)

\* A slip of ResourceLink: the link is born resolved.
ResourceLinkResolved(name) ==
    [resource_type |-> <<"None">>, resource_name |-> name, resolved |-> TRUE]

\* ResourceLink { resource_type: None, resource_name, resolved: false }
ResourceLink(name) ==
    [resource_type |-> <<"None">>, resource_name |-> name, resolved |-> FALSE]

ExtractWikiLinksFromText(t) ==
    [n \in DOMAIN CapturesIter(t, 1) |-> ResourceLink(LinkText(t, CapturesIter(t, 1)[n]))]

WikiLinksInit ==
    /\ wiki_text \in Texts /\ links = <<>> /\ wlPc = "start"
    /\ supported = <<>> /\ parsers = RegistryNew /\ order = <<>>
    /\ FmIdle /\ FlIdle /\ MdIdle /\ ParseIdle /\ ApiIdle

\* extract_wiki_links_from_text(text)
ExtractLinks ==
    /\ wlPc = "start"
    /\ links' = ExtractWikiLinksFromText(wiki_text)
    /\ wlPc' = "done"
    /\ UNCHANGED <<wiki_text, registryVars, fmVars, flVars, mdVars, parseVars, apiVars>>

WikiLinksNext == ExtractLinks

SpecWikiLinks == WikiLinksInit /\ [][WikiLinksNext]_vars

\* The occurrences of [[x]] in t, as first and last position: two opening
\* brackets, a non-empty x without a closing bracket, two closing brackets.
Occurrences(t) ==
    {o \in (1..Len(t)) \X (1..Len(t)) :
        /\ o[2] >= o[1] + 4
        /\ t[o[1]] = "[" /\ t[o[1] + 1] = "["
        /\ t[o[2] - 1] = "]" /\ t[o[2]] = "]"
        /\ \A j \in (o[1] + 2)..(o[2] - 2) : t[j] # "]"}

\* No two occurrences of F share a position.
NonOverlapping(F) == \A o1, o2 \in F : o1 # o2 => (o1[2] < o2[1] \/ o2[2] < o1[1])

\* The occurrences of F from left to right.
RECURSIVE LeftToRight(_)
LeftToRight(F) ==
    IF F = {} THEN <<>>
    ELSE LET first == CHOOSE o \in F : \A o2 \in F : o[1] <= o2[1]
         IN  <<first>> \o LeftToRight(F \ {first})

\* The largest number of non-overlapping occurrences in t.
OccurrenceCount(t) ==
    Largest({Cardinality(F) : F \in {G \in SUBSET Occurrences(t) : NonOverlapping(G)}})

\* C12: the links are those of k non-overlapping occurrences, k being the
\* number of non-overlapping occurrences in the text, from left to right,
\* each named by the text between its brackets, without a type and
\* unresolved; a text without occurrence gives no link.
C12_WikiLinksInOrder ==
    wlPc = "done" =>
        /\ Len(links) = OccurrenceCount(wiki_text)
        /\ \E F \in SUBSET Occurrences(wiki_text) :
              /\ NonOverlapping(F)
              /\ Cardinality(F) = Len(links)
              /\ \A n \in DOMAIN links :
                    /\ links[n].resource_name =
                          SubSeq(wiki_text, LeftToRight(F)[n][1] + 2, LeftToRight(F)[n][2] - 2)
                    /\ links[n].resource_type = <<"None">>
                    /\ links[n].resolved = FALSE

C12_Witness ==
    /\ wlPc = "done"
    /\ wiki_text = <<"[", "[", "a", "]", "]", "[", "[", "b", "]", "]">>
    /\ Len(links) = 2
    /\ links[1].resource_name = <<"a">>
    /\ links[2].resource_name = <<"b">>

(***************************************************************************)
(* parse_markdown_body and convert_mdast_node                              *)
(* (src/src/parsers/doke_parser.rs).                                       *)
(* The Markdown tree is what markdown::to_mdast answers for the body: a    *)
(* node has a kind, its children and one attribute (the value of a text,   *)
(* an inline code or a code block, the alt text of an image, the depth of  *)
(* a heading, whether a list is ordered).  Texts are sequences of          *)
(* characters; the fixed labels of raw_content are one piece each.         *)
(***************************************************************************)
MaxInline == 2

MaxItems == 3

MaxBlocks == 4

Md(kind, attr, children) == [kind |-> kind, attr |-> attr, children |-> children]

TxtPlain == <<"a">>

TxtWithLink == <<"b", "[", "[", "R", "]", "]">>

CodeWithLink == <<"[", "[", "C", "]", "]">>

MdText(value) == Md("Text", value, <<>>)

\* Phrasing content without children.
Leaves ==
    {MdText(TxtPlain), MdText(TxtWithLink), Md("InlineCode", CodeWithLink, <<>>),
     Md("Image", <<"i">>, <<>>)}

Wrappers == {"Strong", "Emphasis", "Delete", "Link"}

\* Phrasing content around a text.
Wrapped ==
    {Md(w, <<>>, <<l>>) : w \in Wrappers, l \in {MdText(TxtPlain), MdText(TxtWithLink)}}
        \cup {Md("Strong", <<>>, <<Md("Emphasis", <<>>, <<MdText(TxtWithLink)>>)>>)}

Phrasing == Leaves \cup Wrapped

InlineSeqs == SeqsUpTo(Phrasing, MaxInline)

Paragraphs == {Md("Paragraph", <<>>, s) : s \in InlineSeqs}

Headings == {Md("Heading", d, s) : d \in {1, 2}, s \in InlineSeqs}

ItemParagraphs ==
    {Md("Paragraph", <<>>, s) :
        s \in {<<MdText(TxtPlain)>>, <<MdText(TxtWithLink)>>,
               <<Md("Strong", <<>>, <<MdText(TxtWithLink)>>)>>,
               <<MdText(TxtPlain), Md("InlineCode", CodeWithLink, <<>>)>>}}

SimpleItems ==
    {Md("ListItem", <<>>, <<p>>) : p \in ItemParagraphs} \cup {Md("ListItem", <<>>, <<>>)}

FlatLists ==
    {Md("List", o, items) : o \in BOOLEAN, items \in SeqsUpTo(SimpleItems, MaxItems) \ {<<>>}}

\* A list item that holds a paragraph and, after it, a list.
NestedItems ==
    {Md("ListItem", <<>>, <<p, Md("List", o, <<i>>)>>) :
        p \in ItemParagraphs, o \in BOOLEAN, i \in SimpleItems}

NestedLists ==
    {Md("List", o, <<i>>) : o \in BOOLEAN, i \in NestedItems}
        \cup {Md("List", o, <<j, i>>) : o \in BOOLEAN, j \in SimpleItems, i \in NestedItems}

Blockquotes == {Md("Blockquote", <<>>, <<p>>) : p \in ItemParagraphs}

OtherBlocks == {Md("Code", CodeWithLink, <<>>), Md("ThematicBreak", <<>>, <<>>)}

AllBlocks ==
    Paragraphs \cup Headings \cup FlatLists \cup NestedLists \cup Blockquotes \cup OtherBlocks

\* The blocks that longer documents are made of.
CoreBlocks ==
    {Md("Heading", 1, <<MdText(TxtPlain)>>),
     Md("Heading", 2, <<MdText(TxtWithLink)>>),
     Md("Paragraph", <<>>, <<MdText(TxtWithLink)>>),
     Md("Paragraph", <<>>, <<Md("Strong", <<>>, <<MdText(TxtPlain)>>), MdText(TxtWithLink)>>),
     Md("List", FALSE, <<Md("ListItem", <<>>, <<Md("Paragraph", <<>>, <<MdText(TxtPlain)>>)>>),
                         Md("ListItem", <<>>, <<Md("Paragraph", <<>>, <<MdText(TxtWithLink)>>)>>)>>),
     Md("List", TRUE, <<Md("ListItem", <<>>, <<Md("Paragraph", <<>>, <<MdText(TxtPlain)>>)>>)>>),
     Md("Blockquote", <<>>, <<Md("Paragraph", <<>>, <<MdText(TxtWithLink)>>)>>),
     Md("Code", CodeWithLink, <<>>)}

Roots ==
    {Md("Root", <<>>, bs) : bs \in SeqsUpTo(CoreBlocks, MaxBlocks) \cup {<<b>> : b \in AllBlocks}}

\* markdown::to_mdast: an error, or the root of the tree.
MdastAnswers == {<<"Err">>} \cup {<<"Ok", r>> : r \in Roots}

RECURSIVE ExtractTextContentFromNode(_), PushTexts(_, _, _), PushTextsLastOnly(_, _, _)

\* A slip of PushTexts: each child's text replaces what was gathered.
PushTextsLastOnly(children, i, acc) ==
    IF i > Len(children) THEN acc
    ELSE LET t == ExtractTextContentFromNode(children[i])
         IN  PushTextsLastOnly(children, i + 1, IF t[1] = "Some" THEN t[2] ELSE acc)

\* The loop shared by the containers: push the text of every child that has one.
PushTexts(children, i, acc) ==
    IF i > Len(children) THEN acc
    ELSE LET t == ExtractTextContentFromNode(children[i])
         IN  PushTexts(children, i + 1, IF t[1] = "Some" THEN acc \o t[2] ELSE acc)

\* extract_text_content_from_node
ExtractTextContentFromNode(node) ==
    CASE node.kind = "Text" -> <<"Some", node.attr>>
      [] node.kind \in {"Heading", "Paragraph", "ListItem", "Strong", "Emphasis",
                        "Link", "Delete"} -> <<"Some", PushTexts(node.children, 1, <<>>)>>
      [] node.kind = "InlineCode" -> <<"Some", node.attr>>
      [] node.kind = "Image" -> <<"Some", node.attr>>
      [] OTHER -> <<"None">>

\* extract_raw_content
ExtractRawContent(node) ==
    CASE node.kind = "Heading" -> <<"Heading level ", node.attr>>
      [] node.kind = "Paragraph" -> <<"Paragraph content">>
      [] node.kind = "List" -> IF node.attr THEN <<"Ordered list">> ELSE <<"Unordered list">>
      [] node.kind = "ListItem" -> <<"List item">>
      [] node.kind = "Text" -> node.attr
      [] OTHER -> <<>>

RECURSIVE ExtractWikiLinks(_), ExtendLinks(_, _, _)

\* The loop shared by the containers: links.extend for every child.
ExtendLinks(children, i, acc) ==
    IF i > Len(children) THEN acc
    ELSE ExtendLinks(children, i + 1, acc \o ExtractWikiLinks(children[i]))

\* A slip of ExtractWikiLinks: an inline code is scanned like a text.
ExtractWikiLinksCodeToo(node) ==
    CASE node.kind \in {"Text", "InlineCode"} -> ExtractWikiLinksFromText(node.attr)
      [] node.kind \in {"Heading", "Paragraph", "List", "ListItem"} ->
            ExtendLinks(node.children, 1, <<>>)
      [] OTHER -> <<>>

\* extract_wiki_links
ExtractWikiLinks(node) ==
    CASE node.kind = "Text" -> ExtractWikiLinksFromText(node.attr)
      [] node.kind \in {"Heading", "Paragraph", "List", "ListItem"} ->
            ExtendLinks(node.children, 1, <<>>)
      [] OTHER -> <<>>

\* DokeNode { .. }; line and column are the 1, 1 that parse_markdown_body
\* passes down.
DokeNode(element, text_content, raw, level, children, wiki_links, ordered) ==
    [node_type |-> "DokeNode", markdown_element |-> element, content |-> text_content,
     raw_content |-> raw, level |-> level, line |-> 1, column |-> 1,
     children |-> children, wiki_links |-> wiki_links, ordered |-> ordered,
     resolved |-> FALSE]

RECURSIVE ConvertMdastNode(_)
\* convert_mdast_node
ConvertMdastNode(node) ==
    LET children == [i \in DOMAIN node.children |-> ConvertMdastNode(node.children[i])]
    IN  CASE node.kind = "Heading" ->
                DokeNode("heading", ExtractTextContentFromNode(node), ExtractRawContent(node),
                         <<"Some", node.attr>>, children, ExtractWikiLinks(node), <<"None">>)
          [] node.kind = "Paragraph" ->
                DokeNode("paragraph", ExtractTextContentFromNode(node), ExtractRawContent(node),
                         <<"None">>, children, ExtractWikiLinks(node), <<"None">>)
          [] node.kind = "List" ->
                DokeNode("list", <<"None">>, ExtractRawContent(node),
                         <<"None">>, children, ExtractWikiLinks(node), <<"Some", node.attr>>)
          [] node.kind = "ListItem" ->
                DokeNode("list_item", ExtractTextContentFromNode(node), ExtractRawContent(node),
                         <<"None">>, children, ExtractWikiLinks(node), <<"None">>)
          [] node.kind = "Text" ->
                DokeNode("text", ExtractTextContentFromNode(node), node.attr,
                         <<"None">>, <<>>, ExtractWikiLinksFromText(node.attr), <<"None">>)
          [] OTHER ->
                DokeNode("unknown", <<"None">>, <<>>, <<"None">>, <<>>, <<>>, <<"None">>)

\* The error parse_markdown_body makes of a failure of to_mdast.
MarkdownParsingError(context) ==
    <<"Err", ValidationError("Markdown parsing error", Display(context.current_file),
                             context.parser_name, <<"None">>)>>

\* create_test_context() of the tests
TestContext ==
    ContextNew("/dokedex", "/project", "Test", <<"t", ".", "m", "d">>, "DokeMarkdownParser")

\* A slip of ParseMarkdownBodyOf: nodes of unknown kind are left out.
ParseMarkdownBodyDropUnknown(answer, context) ==
    IF answer[1] = "Err" THEN MarkdownParsingError(context)
    ELSE IF answer[2].kind = "Root"
         THEN <<"Ok", SelectSeq([i \in DOMAIN answer[2].children |->
                                    ConvertMdastNode(answer[2].children[i])],
                                LAMBDA n : n.markdown_element # "unknown")>>
         ELSE <<"Ok", <<>> >>

\* parse_markdown_body, given what to_mdast answered
ParseMarkdownBodyOf(answer, context) ==
    IF answer[1] = "Err" THEN MarkdownParsingError(context)
    ELSE IF answer[2].kind = "Root"
         THEN <<"Ok", [i \in DOMAIN answer[2].children |->
                          ConvertMdastNode(answer[2].children[i])]>>
         ELSE <<"Ok", <<>> >>

MarkdownInit ==
    /\ ast \in MdastAnswers /\ nodes = <<"None">> /\ mdPc = "start"
    /\ supported = <<>> /\ parsers = RegistryNew /\ order = <<>>
    /\ FmIdle /\ FlIdle /\ WlIdle /\ ParseIdle /\ ApiIdle

\* parse_markdown_body(content, context)
ParseMarkdownBody ==
    /\ mdPc = "start"
    /\ nodes' = ParseMarkdownBodyOf(ast, TestContext)
    /\ mdPc' = "done"
    /\ UNCHANGED <<ast, registryVars, fmVars, flVars, wlVars, parseVars, apiVars>>

MarkdownNext == ParseMarkdownBody

SpecMarkdown == MarkdownInit /\ [][MarkdownNext]_vars

RECURSIVE PairsOf(_, _)
\* A source node with the node made of it, and so on for their children,
\* child by child.
PairsOf(src, dst) ==
    {<<src, dst>>} \cup
        UNION {PairsOf(src.children[i], dst.children[i]) :
                  i \in (DOMAIN src.children) \cap (DOMAIN dst.children)}

\* The source nodes of the body with the nodes returned for them, at every
\* depth.
NodePairs ==
    UNION {PairsOf(ast[2].children[i], nodes[2][i]) :
              i \in (DOMAIN ast[2].children) \cap (DOMAIN nodes[2])}

RECURSIVE TreeNodes(_)
\* A returned node and all nodes below it.
TreeNodes(n) == {n} \cup UNION {TreeNodes(n.children[i]) : i \in DOMAIN n.children}

\* Every node of the returned tree.
AllNodes == UNION {TreeNodes(nodes[2][i]) : i \in DOMAIN nodes[2]}

Returned == mdPc = "done" /\ nodes[1] = "Ok"

\* C13: every node of the returned tree is unresolved, and so is every link
\* of every node.
C13_NothingResolved ==
    Returned =>
        \A n \in AllNodes :
            /\ n.resolved = FALSE
            /\ \A k \in DOMAIN n.wiki_links : n.wiki_links[k].resolved = FALSE

C13_Witness ==
    /\ Returned
    /\ \E n \in AllNodes : n.markdown_element = "unknown"
    /\ \E n \in AllNodes : n.markdown_element = "list_item" /\ n.wiki_links # <<>>
    /\ \A n \in AllNodes : ~n.resolved

RECURSIVE Unbracket(_, _)
\* The text t from position i on with every wiki link written as its bare
\* name.
Unbracket(t, i) ==
    IF i > Len(t) THEN <<>>
    ELSE IF MatchEndAt(t, i) # 0
         THEN SubSeq(t, i + 2, MatchEndAt(t, i) - 2) \o Unbracket(t, MatchEndAt(t, i) + 1)
         ELSE <<t[i]>> \o Unbracket(t, i + 1)

RECURSIVE BareText(_)
\* The plain text of a source node: texts with their wiki links as bare
\* names, inline code without its backticks, emphasis without its markers.
BareText(node) ==
    CASE node.kind = "Text" -> Unbracket(node.attr, 1)
      [] node.kind \in {"InlineCode", "Image"} -> node.attr
      [] OTHER -> Concat([i \in DOMAIN node.children |-> BareText(node.children[i])])

\* The names of the links in a sequence of links.
LinkNames(ls) == {ls[k].resource_name : k \in DOMAIN ls}

RECURSIVE TextLinkNames(_, _)
\* The names of the wiki links written in the texts below a source node that
\* are reached through nodes of the given kinds only.
TextLinkNames(node, through) ==
    IF node.kind = "Text" THEN LinkNames(ExtractWikiLinksFromText(node.attr))
    ELSE IF node.kind \in through
         THEN UNION {TextLinkNames(node.children[i], through) : i \in DOMAIN node.children}
         ELSE {}

AllKinds ==
    {"Root", "Heading", "Paragraph", "List", "ListItem", "Blockquote"} \cup Wrappers

\* C14 as stated: the content of a heading or paragraph node shows each wiki
\* link of its text as the bare name, while the node still carries the link;
\* emphasis markers and backticks are absent.  (Stated here for headings and
\* paragraphs whose links are not inside emphasis, strong, delete or link
\* markup.)
C14_Original ==
    Returned =>
        \A i \in DOMAIN nodes[2] :
            (/\ ast[2].children[i].kind \in {"Heading", "Paragraph"}
             /\ \A j \in DOMAIN ast[2].children[i].children :
                   ast[2].children[i].children[j].kind \in Wrappers =>
                       TextLinkNames(ast[2].children[i].children[j], AllKinds) = {})
                => /\ nodes[2][i].content = <<"Some", BareText(ast[2].children[i])>>
                   /\ LinkNames(nodes[2][i].wiki_links) =
                         TextLinkNames(ast[2].children[i], AllKinds)

RECURSIVE TextLeaves(_, _)
\* The values of the text-bearing leaves below a source node (a text or an
\* inline code gives its value, an image its alt text) that are reached
\* through nodes of the given kinds only, in document order.
TextLeaves(node, through) ==
    IF node.kind \in {"Text", "InlineCode", "Image"} THEN <<node.attr>>
    ELSE IF node.kind \in through
         THEN Concat([i \in DOMAIN node.children |-> TextLeaves(node.children[i], through)])
         ELSE <<>>

\* The kinds whose text a heading, paragraph or list item takes in.
TextKinds == {"Heading", "Paragraph", "ListItem"} \cup Wrappers

ElementOf(kind) ==
    CASE kind = "Heading" -> "heading"
      [] kind = "Paragraph" -> "paragraph"
      [] kind = "List" -> "list"
      [] kind = "ListItem" -> "list_item"
      [] kind = "Text" -> "text"
      [] OTHER -> "unknown"

\* An empty stand-in: unknown, without content, raw content, children or
\* links.
IsStandIn(n) ==
    /\ n.markdown_element = "unknown"
    /\ n.content = <<"None">>
    /\ n.raw_content = <<>>
    /\ n.children = <<>>
    /\ n.wiki_links = <<>>

\* One returned node per source node, of the matching kind, in order.
SameShape(srcs, dsts) ==
    /\ Len(dsts) = Len(srcs)
    /\ \A i \in DOMAIN srcs : dsts[i].markdown_element = ElementOf(srcs[i].kind)

OwnTextKinds == {"ListItem", "Paragraph"} \cup Wrappers

\* C17 as stated: a list becomes one list node, ordered as its source, with
\* one list_item child per item in order; each item's wiki_links holds the
\* links of that item's text (here: at least those of its own text, at most
\* those anywhere below it); ordered is None on every other node.
C17_Original ==
    Returned =>
        \A pr \in NodePairs :
            IF pr[1].kind = "List"
            THEN /\ pr[2].markdown_element = "list"
                 /\ pr[2].ordered = <<"Some", pr[1].attr>>
                 /\ Len(pr[2].children) = Len(pr[1].children)
                 /\ \A i \in DOMAIN pr[1].children :
                       /\ pr[2].children[i].markdown_element = "list_item"
                       /\ TextLinkNames(pr[1].children[i], OwnTextKinds)
                              \subseteq LinkNames(pr[2].children[i].wiki_links)
                       /\ LinkNames(pr[2].children[i].wiki_links)
                              \subseteq TextLinkNames(pr[1].children[i], AllKinds)
            ELSE pr[2].ordered = <<"None">>

\* The links of a returned node and of all nodes below it.
RECURSIVE CollectLinks(_)
CollectLinks(n) ==
    LinkNames(n.wiki_links) \cup UNION {CollectLinks(n.children[i]) : i \in DOMAIN n.children}

\* The names of all links of the returned tree.
AllLinks == UNION {CollectLinks(nodes[2][i]) : i \in DOMAIN nodes[2]}

\* The kinds of the prose contexts: headings, paragraphs, lists and their
\* items, blockquotes.
ProseKinds == {"Root", "Heading", "Paragraph", "List", "ListItem", "Blockquote"}

\* C18 as stated: every wiki link written in a heading, a paragraph, a list
\* item or a blockquote is among the links gathered over the returned tree.
C18_Original ==
    Returned => TextLinkNames(ast[2], ProseKinds) \subseteq AllLinks

RECURSIVE CodeLinkNames(_)
\* The names of the [[..]] written in the inline code and code blocks of a
\* source tree.
CodeLinkNames(node) ==
    IF node.kind \in {"InlineCode", "Code"} THEN LinkNames(ExtractWikiLinksFromText(node.attr))
    ELSE UNION {CodeLinkNames(node.children[i]) : i \in DOMAIN node.children}

\* The names of the links written in the texts that stand directly in the
\* top-level paragraphs and headings, next to whatever markup is there.
PlainTextLinkNames ==
    UNION {TextLinkNames(ast[2].children[i], {"Heading", "Paragraph"}) :
              i \in DOMAIN ast[2].children}

\* C19: a name written only inside inline code or a code block is in no
\* node's wiki_links, while the links of the plain text of paragraphs and
\* headings, next to bold, italic or link markup, are reported.
C19_CodeIsNotScanned ==
    Returned =>
        /\ \A name \in CodeLinkNames(ast[2]) :
              name \notin TextLinkNames(ast[2], AllKinds) => name \notin AllLinks
        /\ PlainTextLinkNames \subseteq AllLinks

C19_Witness ==
    /\ Returned
    /\ CodeLinkNames(ast[2]) = {<<"C">>}
    /\ \E i \in DOMAIN ast[2].children :
          /\ ast[2].children[i].kind = "Paragraph"
          /\ \E j, k \in DOMAIN ast[2].children[i].children :
                /\ ast[2].children[i].children[j].kind = "Strong"
                /\ ast[2].children[i].children[k] = MdText(TxtWithLink)
    /\ AllLinks = {<<"R">>}

\* C20 as stated: for a body of a level-1 heading, a paragraph, a level-2
\* heading and a list, three top-level nodes are returned (heading,
\* paragraph, heading) and the list is the first child of the level-2
\* heading's node.
C20_Original ==
    (/\ Returned
     /\ Len(ast[2].children) = 4
     /\ ast[2].children[1].kind = "Heading" /\ ast[2].children[1].attr = 1
     /\ ast[2].children[2].kind = "Paragraph"
     /\ ast[2].children[3].kind = "Heading" /\ ast[2].children[3].attr = 2
     /\ ast[2].children[4].kind = "List")
        => /\ Len(nodes[2]) = 3
           /\ nodes[2][1].markdown_element = "heading"
           /\ nodes[2][2].markdown_element = "paragraph"
           /\ nodes[2][3].markdown_element = "heading"
           /\ \E i \in DOMAIN nodes[2][3].children :
                 i = 1 /\ nodes[2][3].children[i].markdown_element = "list"

-----------------------------------------------------------------------------
\* DokeMarkdownParser::parse: the frontmatter, then the body.

\* markdown::to_mdast on the body: an error, or one of a few trees.
BodyAnswers ==
    {<<"Err">>} \cup
    {<<"Ok", Md("Root", <<>>, bs)>> :
        bs \in {<<>>,
                <<Md("Paragraph", <<>>, <<MdText(TxtWithLink)>>)>>,
                <<Md("Heading", 1, <<MdText(TxtPlain)>>),
                  Md("Paragraph", <<>>, <<MdText(TxtWithLink)>>)>>}}

\* parse_frontmatter(content) with the loader's answer given.
ParseFrontmatterOf(s, caps, loaded) ==
    IF caps[1] = "Match" THEN AfterLoad(loaded, caps[3])
    ELSE <<"Ok", EmptyMap, s>>

\* DokeMarkdownParser::parse with the answers of the loader and of
\* to_mdast given: each ? hands an error out, a panic unwinds through it.
ParseOf(s, context, caps, loaded, answer) ==
    LET frontmatter == ParseFrontmatterOf(s, caps, loaded)
    IN  IF frontmatter[1] # "Ok" THEN frontmatter
        ELSE LET body == ParseMarkdownBodyOf(answer, context)
             IN  IF body[1] # "Ok" THEN body
                 ELSE <<"Ok", [frontmatter |-> frontmatter[2], body |-> body[2]]>>

\* The contexts parse is called with.
ParseContexts ==
    {ContextNew("/dokedex", "/project", "Item", f, "DokeMarkdownParser") :
        f \in {<<"t", ".", "m", "d">>, <<"s", ".", "m", "d">>}}

ParseInit ==
    /\ content \in Documents
    /\ parsed = <<"None">> /\ parsePc = "start"
    /\ yaml_content = <<"None">> /\ body_content = <<"None">> /\ docs = <<"None">>
    /\ fmPc = "idle" /\ fmResult = NoResult
    /\ supported = <<>> /\ parsers = RegistryNew /\ order = <<>>
    /\ FlIdle /\ WlIdle /\ MdIdle
    /\ ctx \in ParseContexts /\ child = <<"None">> /\ ctxPc = "idle"
    /\ ErrIdle /\ DefIdle /\ BtIdle /\ ImpIdle

\* What `docs` is when the loader was not called.
NotLoaded == <<"None">>

\* parser.parse(content, &context); docs is what the loader answered, ast
\* what to_mdast answered, when they were called.
Parse ==
    /\ parsePc = "start"
    /\ LET caps == Captures(content)
       IN  \E loaded \in (IF caps[1] = "Match" THEN LoadFromStr(caps[2]) ELSE {NotLoaded}),
              answer \in BodyAnswers :
               /\ docs' = loaded
               /\ ast' = IF ParseFrontmatterOf(content, caps, loaded)[1] = "Ok"
                         THEN answer ELSE <<"None">>
               /\ parsed' = ParseOf(content, ctx, caps, loaded, answer)
    /\ parsePc' = "done"
    /\ UNCHANGED <<content, yaml_content, body_content, fmPc, fmResult, nodes, mdPc,
                   registryVars, flVars, wlVars, apiVars>>

ParseNext == Parse

SpecParse == ParseInit /\ [][ParseNext]_vars

\* C11 as stated: whatever the input, parse ends by returning Ok(map) or
\* Err(DokeError); nothing makes it panic.
C11_Original ==
    parsePc = "done" => parsed[1] \in {"Ok", "Err"}

\* C24 as stated: every error parse returns carries the context's
\* current_file as its file and, where the variant has one, the context's
\* parser_name.
C24_Original ==
    (parsePc = "done" /\ parsed[1] = "Err") =>
        /\ "file" \in DOMAIN parsed[2]
        /\ parsed[2].file = ctx.current_file
        /\ "parser" \in DOMAIN parsed[2] => parsed[2].parser = ctx.parser_name

\* The metadata block was there and the loader failed on it or found no
\* document in it.
MetadataMalformedOrEmpty ==
    /\ Captures(content)[1] = "Match"
    /\ docs[1] = "Err" \/ (docs[1] = "Ok" /\ docs[2] = <<>>)

\* The Markdown grammar reported a failure.
GrammarFailed == ast[1] = "Err"

\* The flat metadata map of the document: empty without a block.
FlatMetadata ==
    IF Captures(content)[1] = "Match"
    THEN ParseYamlToValue(docs[2][1], <<"Ok", EmptyMap>>, "")
    ELSE <<"Ok", EmptyMap>>

\* C25 as stated: parse returns Err only for a matched metadata block that
\* is malformed or empty, or for a failure of the Markdown grammar; for
\* every other input it returns Ok of a map with `frontmatter`, the flat
\* metadata map, and `body`, one element per top-level node.
C25_Original ==
    parsePc = "done" =>
        /\ parsed[1] = "Err" => (MetadataMalformedOrEmpty \/ GrammarFailed)
        /\ ~ (MetadataMalformedOrEmpty \/ GrammarFailed) =>
              /\ parsed[1] = "Ok"
              /\ DOMAIN parsed[2] = {"frontmatter", "body"}
              /\ parsed[2].frontmatter = FlatMetadata[2]
              /\ Len(parsed[2].body) = Len(ast[2].children)

-----------------------------------------------------------------------------
\* DefaultMarkdownParser::parse (src/src/parser_api.rs).

MaxChars == 5

CR == "\r"

DefaultChars == {"#", " ", "a", NL, CR}

DefaultContents == SeqsUpTo(DefaultChars, MaxChars)

\* char::is_whitespace, over the characters of the model
IsWhite(c) == c \in {" ", NL, CR}

RECURSIVE StrLines(_, _, _)
\* str::lines from position i on, `line` being what was read of the current
\* line: a line ends at a newline, a carriage return right before it is
\* dropped with it, and what follows the last newline is a line if it is
\* not empty.
StrLines(s, i, line) ==
    IF i > Len(s) THEN (IF line = <<>> THEN <<>> ELSE <<line>>)
    ELSE IF s[i] = NL
         THEN <<IF line # <<>> /\ line[Len(line)] = CR
                THEN SubSeq(line, 1, Len(line) - 1) ELSE line>>
              \o StrLines(s, i + 1, <<>>)
         ELSE StrLines(s, i + 1, Append(line, s[i]))

RECURSIVE TrimStart(_)
TrimStart(t) == IF t # <<>> /\ IsWhite(t[1]) THEN TrimStart(Tail(t)) ELSE t

RECURSIVE TrimEnd(_)
TrimEnd(t) ==
    IF t # <<>> /\ IsWhite(t[Len(t)]) THEN TrimEnd(SubSeq(t, 1, Len(t) - 1)) ELSE t

\* str::trim
Trim(t) == TrimEnd(TrimStart(t))

\* A slip of TakeWhileHash: every # of the line is counted.
CountHashes(line) == Cardinality({i \in DOMAIN line : line[i] = "#"})

RECURSIVE TakeWhileHash(_)
\* line.chars().take_while(|c| *c == '#').count()
TakeWhileHash(line) ==
    IF line # <<>> /\ line[1] = "#" THEN 1 + TakeWhileHash(Tail(line)) ELSE 0

RECURSIVE TrimStartMatchesHash(_)
\* line.trim_start_matches('#')
TrimStartMatchesHash(line) ==
    IF line # <<>> /\ line[1] = "#" THEN TrimStartMatchesHash(Tail(line)) ELSE line

RECURSIVE SectionsFrom(_, _)
\* The loop over lines.iter().enumerate() from the line of index line_num on.
SectionsFrom(lines, line_num) ==
    IF line_num + 1 > Len(lines) THEN <<>>
    ELSE LET line == lines[line_num + 1]
         IN  (IF line # <<>> /\ line[1] = "#"
              THEN <<[type |-> "heading", level |-> TakeWhileHash(line),
                      content |-> Trim(TrimStartMatchesHash(line)), line |-> line_num + 1]>>
              ELSE IF Trim(line) # <<>>
                   THEN <<[type |-> "paragraph", content |-> Trim(line), line |-> line_num + 1]>>
                   ELSE <<>>)
             \o SectionsFrom(lines, line_num + 1)

\* DefaultMarkdownParser::parse
DefaultParseOf(s) ==
    <<"Ok", [raw_content |-> s, type |-> "markdown",
             sections |-> SectionsFrom(StrLines(s, 1, <<>>), 0)]>>

DefaultInit ==
    /\ def_content \in DefaultContents /\ def_result = <<"None">> /\ defPc = "start"
    /\ supported = <<>> /\ parsers = RegistryNew /\ order = <<>>
    /\ FmIdle /\ FlIdle /\ WlIdle /\ MdIdle /\ ParseIdle
    /\ CtxIdle /\ ErrIdle /\ BtIdle /\ ImpIdle

\* DefaultMarkdownParser.parse(def_content, &context)
DefaultParse ==
    /\ defPc = "start"
    /\ def_result' = DefaultParseOf(def_content)
    /\ defPc' = "done"
    /\ UNCHANGED <<def_content, coreVars, ctxVars, errVars, btVars, impVars>>

DefaultNext == DefaultParse

SpecDefault == DefaultInit /\ [][DefaultNext]_vars

\* The lines of the content, split at its newlines.
SourceLines == LinesFrom(def_content, 1)

\* A line with a character that is no white space.
NonBlank(t) == \E i \in DOMAIN t : ~ IsWhite(t[i])

\* The line's first n characters are # and the next one, if any, is not.
LeadingHashes(t, n) ==
    /\ n \in 0..Len(t)
    /\ \A i \in 1..n : t[i] = "#"
    /\ n < Len(t) => t[n + 1] # "#"

\* C27: the default parser never fails, and `sections` has exactly one entry
\* per non-blank line of the content, in line order: a heading whose level is
\* the number of leading # for a line starting with #, a paragraph for any
\* other non-blank line, each with the 1-based index of its line.
C27_OneSectionPerLine ==
    defPc = "done" =>
        /\ def_result[1] = "Ok"
        /\ LET sections == def_result[2].sections
               nonBlank == {i \in DOMAIN SourceLines : NonBlank(SourceLines[i].text)}
           IN  /\ Len(sections) = Cardinality(nonBlank)
               /\ \A k \in DOMAIN sections :
                     /\ sections[k].line \in nonBlank
                     /\ k > 1 => sections[k - 1].line < sections[k].line
                     /\ LET t == SourceLines[sections[k].line].text
                        IN  IF t[1] = "#"
                            THEN /\ sections[k].type = "heading"
                                 /\ LeadingHashes(t, sections[k].level)
                            ELSE sections[k].type = "paragraph"

C27_Witness ==
    /\ defPc = "done"
    /\ def_content = <<"#", "#", NL, NL, "a">>
    /\ Len(def_result[2].sections) = 2
    /\ def_result[2].sections[1].level = 2
    /\ def_result[2].sections[2].line = 3

-----------------------------------------------------------------------------
\* build_top_level_resource (src/src/import.rs).  What the engine answers
\* to the calls made into it is chosen by the environment; `host` is the
\* sequence of those calls, with the answers that decide what follows.

APPLY_DOKE_FM_METHOD == "_apply_doke_frontmatter"
APPLY_ROOT_DOKE_FM_METHOD == "_apply_root_doke_frontmatter"

GodotResource(type_name) == <<"Resource", type_name>>

GodotValues ==
    {<<"Nil">>, <<"Bool", TRUE>>, <<"Int", 1>>, <<"String", "s">>, <<"Array", <<>> >>,
     <<"Dict", <<>> >>}
    \cup {GodotResource(t) : t \in {"Item", "Character", "Node"}}

ResourcePaths == {<<"None">>, <<"Some", "res://a.tres">>, <<"Some", "res://b.tres">>}

\* What the engine answers during one build: whether the loader finds a
\* resource at the path, whether the class is built in, whether what was
\* instantiated is a Resource, whether the class script loads, whether the
\* frontmatter converts, and whether the called method is there.
Engines ==
    [loads : BOOLEAN, class_exists : BOOLEAN, is_resource : BOOLEAN,
     script_loads : BOOLEAN, fm_converts : BOOLEAN, has_method : BOOLEAN]

\* instantiate_resource(type_name): the calls made and the result
InstantiateResource(type_name, engine) ==
    IF engine.class_exists
    THEN [calls |-> <<<<"class_exists", type_name, engine.class_exists>>, <<"instantiate", type_name>>>>,
          result |-> IF engine.is_resource THEN <<"Ok", <<"fresh", type_name>>>>
                     ELSE <<"Err", "ConvertError">>]
    ELSE IF ~ engine.script_loads
         THEN [calls |-> <<<<"class_exists", type_name, engine.class_exists>>, <<"get_global_class_list">>,
                           <<"try_load", engine.script_loads>>>>,
               result |-> <<"Err", "IoError">>]
         ELSE [calls |-> <<<<"class_exists", type_name, engine.class_exists>>, <<"get_global_class_list">>,
                           <<"try_load", engine.script_loads>>, <<"new", type_name>>>>,
               result |-> IF engine.is_resource THEN <<"Ok", <<"fresh", type_name>>>>
                          ELSE <<"Err", "ConvertError">>]

\* apply_doke_frontmatter_if_exists(resource, frontmatter): the frontmatter
\* is converted, then the method is called; Object::call panics when the
\* call fails.
ApplyDokeFrontmatterIfExists(resource, engine) ==
    IF ~ engine.fm_converts
    THEN [calls |-> <<<<"convert_fm">>>>, result |-> <<"Err", "ConvertError">>]
    ELSE [calls |-> <<<<"convert_fm">>, <<"call", resource, APPLY_ROOT_DOKE_FM_METHOD>>>>,
          result |-> IF engine.has_method THEN <<"Ok">> ELSE <<"Panic">>]

\* build_top_level_resource(value, path, frontmatter)
BuildTopLevelResourceOf(value, path, engine) ==
    IF value[1] # "Resource"
    THEN [calls |-> <<>>, result |-> <<"Err", "NotAResource">>]
    ELSE LET loading == IF path[1] = "Some" THEN <<<<"load", path[2], engine.loads>>>> ELSE <<>>
         IN  IF path[1] = "Some" /\ engine.loads
             THEN [calls |-> loading, result |-> <<"Ok", <<"existing", path[2]>>>>]
             ELSE LET res == InstantiateResource(value[2], engine)
                  IN  IF res.result[1] # "Ok"
                      THEN [calls |-> loading \o res.calls, result |-> res.result]
                      ELSE LET applied == ApplyDokeFrontmatterIfExists(res.result[2], engine)
                           IN  [calls |-> loading \o res.calls \o applied.calls,
                                result |-> IF applied.result[1] = "Ok" THEN res.result
                                           ELSE applied.result]

BuildInit ==
    /\ bt_value \in GodotValues /\ bt_path \in ResourcePaths
    /\ host = <<>> /\ bt_result = <<"None">> /\ btPc = "start"
    /\ supported = <<>> /\ parsers = RegistryNew /\ order = <<>>
    /\ FmIdle /\ FlIdle /\ WlIdle /\ MdIdle /\ ParseIdle
    /\ CtxIdle /\ ErrIdle /\ DefIdle /\ ImpIdle

\* build_top_level_resource(bt_value, bt_path, &frontmatter)
BuildTopLevelResource ==
    /\ btPc = "start"
    /\ \E engine \in Engines :
          LET built == BuildTopLevelResourceOf(bt_value, bt_path, engine)
          IN  host' = built.calls /\ bt_result' = built.result
    /\ btPc' = "done"
    /\ UNCHANGED <<bt_value, bt_path, coreVars, ctxVars, errVars, defVars, impVars>>

BuildNext == BuildTopLevelResource

SpecBuild == BuildInit /\ [][BuildNext]_vars

\* The frontmatter-apply method was called on the resource.
AppliedTo(resource) ==
    \E i \in DOMAIN host :
        /\ host[i][1] = "call" /\ host[i][2] = resource
        /\ host[i][3] \in {APPLY_DOKE_FM_METHOD, APPLY_ROOT_DOKE_FM_METHOD}

\* C26 as stated: on every successful path, the resource loaded from the
\* path as well as the freshly instantiated one, the frontmatter-apply
\* method is called on the resource before it is returned; a value that is
\* no Resource gives NotAResource and nothing is loaded or instantiated.
C26_Original ==
    btPc = "done" =>
        /\ bt_result[1] = "Ok" => AppliedTo(bt_result[2])
        /\ bt_value[1] # "Resource" =>
              (bt_result = <<"Err", "NotAResource">> /\ host = <<>>)

-----------------------------------------------------------------------------
\* DokeImporter (src/src/lib.rs).  Whether a config file loads, what the
\* file at a path holds and what the parser, the builder and the conversion
\* answer are chosen by the environment.

MaxFileLines == 5

\* separator_count == 3
SeparatorLimit == 3

FileTypes == {"Item", "Character"}
ConfigPaths == {"item.yaml", "all.yaml"}

MdPaths == {<<"a", ".", "m", "d">>, <<"a", ".", "t", "x", "t">>}

\* str::ends_with
EndsWith(t, suffix) ==
    /\ Len(t) >= Len(suffix)
    /\ SubSeq(t, Len(t) - Len(suffix) + 1, Len(t)) = suffix

\* The lines a file is written with: a separator, a separator among blanks,
\* a line of text.
FileLineKinds == {Dashes, <<" ", "-", "-", "-", " ">>, <<"a">>}

\* The text of a file of the given lines, its last line ended by a newline
\* or not.
FileText(ls, ended) ==
    Concat([i \in DOMAIN ls |-> IF i < Len(ls) \/ ended THEN ls[i] \o <<NL>> ELSE ls[i]])

FileTexts(n) == {FileText(ls, ended) : ls \in SeqsUpTo(FileLineKinds, n), ended \in BOOLEAN}

\* What is at a path: nothing that opens, or a file with its text.
FilesUpTo(n) == {<<"Missing">>} \cup {<<"File", t>> : t \in FileTexts(n)}

\* What the parser, the builder and the conversion to a resource answer.
ImportAnswers ==
    [validates : {"Ok", "ParseError"}, builds : {"Ok", "BuilderError"},
     converts : {"Ok", "ConvertError"}]

\* HashMap::insert
Stored(m, k, v) == [x \in DOMAIN m \cup {k} |-> IF x = k THEN v ELSE m[x]]

\* A slip of LoadFileBuilderOf: the entry is written whatever the load gave.
LoadFileBuilderAlways(m, file_type, config_path, loads) ==
    [map |-> Stored(m, file_type, config_path), failed |-> IF loads THEN 0 ELSE 1]

\* load_file_builder: the builders map after it and what it returns
LoadFileBuilderOf(m, file_type, config_path, loads) ==
    IF loads THEN [map |-> Stored(m, file_type, config_path), failed |-> 0]
    ELSE [map |-> m, failed |-> 1]

\* load_sentence_parser: the parsers map after it and what it returns
LoadSentenceParserOf(m, file_type, config_path, loads) ==
    IF loads THEN [map |-> Stored(m, file_type, config_path), failed |-> 0]
    ELSE [map |-> m, failed |-> 1]

RECURSIVE ReadInputKeepThird(_, _, _, _)
\* A slip of ReadInput: the line is pushed before the count is looked at.
ReadInputKeepThird(lines, i, separator_count, input) ==
    IF i > Len(lines) THEN <<"Ok", input>>
    ELSE IF InvalidByte \in {lines[i][k] : k \in DOMAIN lines[i]} THEN <<"Err", "CantReadFile">>
    ELSE LET count == IF Trim(lines[i]) = Dashes THEN separator_count + 1
                      ELSE separator_count
         IN  IF Trim(lines[i]) = Dashes /\ count = SeparatorLimit
             THEN <<"Ok", input \o lines[i] \o <<NL>> >>
             ELSE ReadInputKeepThird(lines, i + 1, count, input \o lines[i] \o <<NL>>)

RECURSIVE ReadInput(_, _, _, _)
\* The loop over reader.lines() from the i-th line on.
ReadInput(lines, i, separator_count, input) ==
    IF i > Len(lines) THEN <<"Ok", input>>
    ELSE IF InvalidByte \in {lines[i][k] : k \in DOMAIN lines[i]} THEN <<"Err", "CantReadFile">>
    ELSE LET count == IF Trim(lines[i]) = Dashes THEN separator_count + 1
                      ELSE separator_count
         IN  IF Trim(lines[i]) = Dashes /\ count = SeparatorLimit
             THEN <<"Ok", input>>
             ELSE ReadInput(lines, i + 1, count, input \o lines[i] \o <<NL>>)

NoInput == <<"None">>

\* import_doke_as_gd_value: what it returns and the text it handed to the
\* parser, if it came to that.
ImportDokeAsGdValue(file_type, md_path, file, answers) ==
    IF ~ EndsWith(md_path, <<".", "m", "d">>)
    THEN [result |-> <<"Err", "InvalidExtension">>, input |-> NoInput]
    ELSE IF file[1] = "Missing"
    THEN [result |-> <<"Err", "CantReadFile">>, input |-> NoInput]
    ELSE LET read == ReadInput(StrLines(file[2], 1, <<>>), 1, 0, <<>>)
         IN  IF read[1] = "Err" THEN [result |-> read, input |-> NoInput]
             ELSE IF file_type \in DOMAIN pipes /\ file_type \in DOMAIN builders
             THEN [result |-> IF answers.validates # "Ok" THEN <<"Err", answers.validates>>
                              ELSE IF answers.builds # "Ok" THEN <<"Err", answers.builds>>
                              ELSE <<"Ok", "final_value">>,
                   input |-> <<"Some", read[2]>>]
             ELSE [result |-> <<"Err", "MissingParserError">>, input |-> NoInput]

\* __import_doke, given what import_doke_as_gd_value returned: the Err arm
\* is todo!(), which panics.
ImportDokeInner(value, answers) ==
    IF value[1] = "Ok"
    THEN IF answers.converts = "Ok" THEN <<"Ok", "resource">>
         ELSE <<"Err", answers.converts>>
    ELSE <<"Panic">>

\* import_doke, given what __import_doke returned: the value handed back
\* and the errors pushed to the host.
ImportDokeOf(inner) ==
    CASE inner[1] = "Ok" -> [returned |-> <<"Some", inner[2]>>, pushed |-> <<>>]
      [] inner[1] = "Err" -> [returned |-> <<"None">>, pushed |-> <<inner[2]>>]
      [] OTHER -> [returned |-> <<"Panic">>, pushed |-> <<>>]

\* A few files: none, one with two separators, one with a line that is
\* no UTF-8.
SomeFiles ==
    {<<"Missing">>, <<"File", FileText(<<Dashes, <<"a">>, Dashes>>, TRUE)>>,
     <<"File", FileText(<<<<"a">>, <<InvalidByte>>>>, TRUE)>>}

\* #[class(init)]: both maps empty; the file system holds one of `files`.
ImporterNew(files) ==
    /\ pipes = EmptyMap /\ builders = EmptyMap /\ md_file \in files
    /\ imp_call = [op |-> "none"] /\ imp_input = NoInput /\ imp_result = <<"None">>
    /\ supported = <<>> /\ parsers = RegistryNew /\ order = <<>>
    /\ FmIdle /\ FlIdle /\ WlIdle /\ MdIdle /\ ParseIdle
    /\ CtxIdle /\ ErrIdle /\ DefIdle /\ BtIdle

ImporterInit == ImporterNew(SomeFiles)

ImportTextInit == ImporterNew(FilesUpTo(MaxFileLines))

\* load_parser_for_filetype(file_type, config_path): the builder is loaded
\* first, then the sentence parser.
LoadParserForFiletype(file_type, config_path) ==
    \E builder_loads, parser_loads \in BOOLEAN :
        LET built == LoadFileBuilderOf(builders, file_type, config_path, builder_loads)
            piped == LoadSentenceParserOf(pipes, file_type, config_path, parser_loads)
        IN  /\ builders' = built.map
            /\ pipes' = piped.map
            /\ imp_result' = <<"Int", built.failed + piped.failed>>
            /\ imp_call' = [op |-> "load", file_type |-> file_type,
                            config_path |-> config_path, builder_loads |-> builder_loads,
                            parser_loads |-> parser_loads]
            /\ imp_input' = NoInput
            /\ UNCHANGED <<md_file, coreVars, ctxVars, errVars, defVars, btVars>>

\* import_doke(file_type, md_path)
ImportDoke(file_type, md_path) ==
    \E answers \in ImportAnswers :
        LET value == ImportDokeAsGdValue(file_type, md_path, md_file, answers)
        IN  /\ imp_result' = ImportDokeOf(ImportDokeInner(value.result, answers))
            /\ imp_input' = value.input
            /\ imp_call' = [op |-> "import", file_type |-> file_type, md_path |-> md_path,
                            gd_value |-> value.result]
            /\ UNCHANGED <<pipes, builders, md_file, coreVars, ctxVars, errVars, defVars,
                           btVars>>

ImporterNext ==
    \/ \E file_type \in FileTypes, config_path \in ConfigPaths :
          LoadParserForFiletype(file_type, config_path)
    \/ \E file_type \in FileTypes, md_path \in MdPaths : ImportDoke(file_type, md_path)

\* The importer with several file types and configs, importing a few files.
SpecImporter == ImporterInit /\ [][ImporterNext]_vars

ImportTextNext ==
    \/ LoadParserForFiletype("Item", "item.yaml")
    \/ \E md_path \in MdPaths : ImportDoke("Item", md_path)

\* The importer with one file type, importing every file of up to
\* MaxFileLines lines.
SpecImportText == ImportTextInit /\ [][ImportTextNext]_vars

\* C28 as stated: import_doke returns None, after reporting the error, for
\* every failure of the import, and never panics.
C28_Original ==
    imp_call.op = "import" =>
        /\ imp_result.returned # <<"Panic">>
        /\ imp_call.gd_value[1] = "Err" => imp_result.returned = <<"None">>
        /\ imp_result.returned = <<"None">> => imp_result.pushed # <<>>

\* The line is --- among white space only.
IsSeparatorLine(t) ==
    \E i \in 1..(Len(t) - 2) :
        /\ SubSeq(t, i, i + 2) = Dashes
        /\ \A k \in (DOMAIN t) \ (i..(i + 2)) : IsWhite(t[k])

\* The lines of the imported file and, among them, the separators.
FileLines == LinesFrom(md_file[2], 1)

Separators == {i \in DOMAIN FileLines : IsSeparatorLine(FileLines[i].text)}

\* The index of the third separator line, or the one after the last line
\* when there are fewer than three.
Cut ==
    IF Cardinality(Separators) >= 3
    THEN CHOOSE i \in Separators : Cardinality({j \in Separators : j <= i}) = 3
    ELSE Len(FileLines) + 1

\* C29: the text handed to the parser is the file's lines in order, each
\* followed by a newline, up to but excluding the third separator line; a
\* file with fewer than three separator lines is passed whole.
C29_InputStopsAtThirdSeparator ==
    (imp_call.op = "import" /\ imp_input[1] = "Some") =>
        imp_input[2] = Concat([i \in 1..(Cut - 1) |-> FileLines[i].text \o <<NL>>])

C29_Witness ==
    /\ imp_call.op = "import"
    /\ md_file = <<"File", FileText(<<Dashes, Dashes, <<"a">>, <<" ", "-", "-", "-", " ">>,
                                      <<"a">>>>, FALSE)>>
    /\ imp_input = <<"Some", FileText(<<Dashes, Dashes, <<"a">>>>, TRUE)>>

\* The last call was a load of T from the config that is now stored in m,
\* and that part of it succeeded.
StoredByLoad(m, T, part) ==
    /\ imp_call'.op = "load" /\ imp_call'.file_type = T
    /\ imp_call'[part]
    /\ m[T] = imp_call'.config_path

\* C30: an import for T gets past the lookup only if a parser pipe and a
\* builder are both stored for T, and fails with MissingParserError at the
\* lookup otherwise; an entry is stored only by a load of T that succeeded
\* for that part; load_parser_for_filetype returns the number of its two
\* loads that failed and leaves the entry of a failed load as it was;
\* imports change neither map.
C30_MapsAndLookup ==
    [][/\ \A T \in FileTypes :
             /\ (T \in DOMAIN pipes' /\ (T \notin DOMAIN pipes \/ pipes'[T] # pipes[T]))
                   => StoredByLoad(pipes', T, "parser_loads")
             /\ (T \in DOMAIN builders' /\ (T \notin DOMAIN builders \/ builders'[T] # builders[T]))
                   => StoredByLoad(builders', T, "builder_loads")
       /\ DOMAIN pipes \subseteq DOMAIN pipes' /\ DOMAIN builders \subseteq DOMAIN builders'
       /\ imp_call'.op = "load" =>
             /\ imp_result' = <<"Int", Cardinality({part \in {"parser_loads", "builder_loads"} :
                                                      ~ imp_call'[part]})>>
             /\ ~ imp_call'.parser_loads => pipes' = pipes
             /\ ~ imp_call'.builder_loads => builders' = builders
       /\ imp_call'.op = "import" =>
             LET T == imp_call'.file_type
                 both == T \in DOMAIN pipes /\ T \in DOMAIN builders
             IN  /\ pipes' = pipes /\ builders' = builders
                 /\ imp_input'[1] = "Some" => both
                 /\ imp_call'.gd_value[1] = "Ok" => both
                 /\ imp_call'.gd_value \notin {<<"Err", "InvalidExtension">>,
                                               <<"Err", "CantReadFile">>}
                       => (both <=> imp_call'.gd_value # <<"Err", "MissingParserError">>)
      ]_vars

C30_Witness ==
    /\ imp_call.op = "import" /\ imp_call.file_type = "Item"
    /\ imp_call.gd_value = <<"Err", "MissingParserError">>
    /\ "Item" \in DOMAIN builders /\ "Item" \notin DOMAIN pipes
    /\ "Character" \in DOMAIN pipes /\ pipes["Character"] = "all.yaml"

=============================================================================
